---- MODULE Spec2Model ----
(***************************************************************************)
(* A model of the analytics aggregation and transformation pipeline of     *)
(* wmr-country-profiles: the transformation rule registry                  *)
(* (dataTransformationService.ts) and DataProcessingService                *)
(* .processCountryData (country-code lookup, the concurrent grouped        *)
(* analytics queries, the row merge, the country flags and the policy      *)
(* filter / sort / interpretation).                                        *)
(*                                                                         *)
(* Representation.                                                         *)
(*  - A JavaScript string whose characters matter (a raw analytics value,  *)
(*    a period, a policy label) is a sequence of one-character strings.    *)
(*    Identifiers (data element UIDs, country codes) and the catalog's     *)
(*    intervention / strategy texts are only compared and copied, and are  *)
(*    TLA+ strings.                                                        *)
(*  - A JavaScript number is an integer count of hundredths (Scale = 100): *)
(*    0.5 is 50, 2015 is 201500.  Every raw value drawn below has at most  *)
(*    two decimals, so parsing and the rules are exact.                    *)
(*  - null / undefined / NaN / an absent optional field is the empty       *)
(*    tuple <<>>; a present number n is <<n>>.                             *)
(***************************************************************************)
EXTENDS Integers, Sequences, FiniteSets, TLC

VARIABLES
    transformationRules,  \* DataTransformationService.transformationRules
    tvCall,               \* the last transformValue call: <<>> or [uid, value, result]
    pc,                   \* where processCountryData stands
    period,               \* its period argument
    remoteUnit,           \* the remote organisation unit: its code field, or <<>>
    remote,               \* the remote analytics store: UID -> raw value
    lookupFailed,         \* the organisation-unit lookup rejected
    countryCode,          \* processCountryData's countryCode local
    settled,              \* state of each grouped query's promise
    error,                \* the error processCountryData rejected with
    dataMap,              \* processCountryData's dataMap
    textDataMap,          \* processCountryData's textDataMap
    result,               \* the record processCountryData resolved with
    catalog,              \* the policy catalog (policyData)
    rows,                 \* rows handed to the merge step
    sortedPolicyData,     \* the filtered and sorted catalog
    policies,             \* the resolved policy list
    selection,            \* CountryProfile's props: <<country, period>>
    builds,               \* the loadCountryData calls of the component
    view,                 \* CountryProfile's data, loading and error state
    stray,                \* a row the remote adds to a response unasked
    optionSetCache,       \* DataProcessingService.optionSetCache
    optionCatalog,        \* the remote option sets: id -> (code -> displayName)
    invocation,           \* the processCountryData calls made on the singleton
    osCall,               \* the last getOptionSetValue call
    panel,                \* the rows of the Reported Cases and Deaths panel
    dhis2,                \* DHIS2Service: config, authHeader, isProduction
    auth,                 \* the AuthState of DHIS2Provider's reducer
    ruleCall,             \* the last call on the rule registry
    dhis2Call             \* the last call on DHIS2Service

vars == <<transformationRules, tvCall, pc, period, remoteUnit, remote, stray,
          lookupFailed, countryCode, settled, error, dataMap, textDataMap,
          result, catalog, rows, sortedPolicyData, policies,
          selection, builds, view,
          optionSetCache, optionCatalog, invocation, osCall,
          panel, dhis2, auth, ruleCall, dhis2Call>>

---------------------------------------------------------------------------
(* Numbers and strings *)

Scale == 10 * 10

Null == <<>>

Num(n) == <<n>>

IsNull(x) == x = <<>>

\* a Map with no entry
EmptyMap == [k \in {} |-> <<>>]

\* Map.set
Put(map, key, value) ==
    [k \in DOMAIN map \cup {key} |-> IF k = key THEN value ELSE map[k]]

Min(a, b) == IF a < b THEN a ELSE b

Digits == {"0", "1", "2", "3", "4", "5", "6", "7", "8", "9"}

DigitVal(c) ==
    CASE c = "0" -> 0 [] c = "1" -> 1 [] c = "2" -> 2 [] c = "3" -> 3
      [] c = "4" -> 4 [] c = "5" -> 5 [] c = "6" -> 6 [] c = "7" -> 7
      [] c = "8" -> 8 [] c = "9" -> 9

WhiteSpace == {" ", "\t", "\n"}

\* String.prototype.trim
RECURSIVE TrimLeft(_)
TrimLeft(s) ==
    IF s # <<>> /\ Head(s) \in WhiteSpace THEN TrimLeft(Tail(s)) ELSE s

RECURSIVE TrimRight(_)
TrimRight(s) ==
    IF s # <<>> /\ s[Len(s)] \in WhiteSpace
    THEN TrimRight(SubSeq(s, 1, Len(s) - 1))
    ELSE s

trim(s) == TrimRight(TrimLeft(s))

\* the number of leading decimal digits of s
RECURSIVE DigitRun(_)
DigitRun(s) ==
    IF s # <<>> /\ Head(s) \in Digits THEN 1 + DigitRun(Tail(s)) ELSE 0

\* the value of a sequence of decimal digits
RECURSIVE DigitsValue(_)
DigitsValue(s) ==
    IF s = <<>> THEN 0
    ELSE 10 * DigitsValue(SubSeq(s, 1, Len(s) - 1)) + DigitVal(s[Len(s)])

Drop(s, n) == SubSeq(s, n + 1, Len(s))

\* the first two fraction digits as hundredths
FractionValue(f) ==
    IF Len(f) = 0 THEN 0
    ELSE IF Len(f) = 1 THEN 10 * DigitVal(f[1])
    ELSE 10 * DigitVal(f[1]) + DigitVal(f[2])

(* parseFloat: leading white space is skipped, then the longest prefix that
   is a decimal literal (sign, digits, fraction) is converted; NaN (<<>>)
   when there is none.  Exponents and "Infinity" are not modelled: no raw
   value drawn below holds them. *)
parseFloat(str) ==
    LET t     == TrimLeft(str)
        neg   == t # <<>> /\ Head(t) = "-"
        u     == IF t # <<>> /\ Head(t) \in {"-", "+"} THEN Tail(t) ELSE t
        ni    == DigitRun(u)
        afterInt == Drop(u, ni)
        hasDot == afterInt # <<>> /\ Head(afterInt) = "."
        nf    == IF hasDot THEN DigitRun(Tail(afterInt)) ELSE 0
        frac  == IF hasDot THEN SubSeq(Tail(afterInt), 1, nf) ELSE <<>>
        mag   == Scale * DigitsValue(SubSeq(u, 1, ni)) + FractionValue(frac)
    IN  IF ni = 0 /\ nf = 0 THEN Null
        ELSE Num(IF neg THEN 0 - mag ELSE mag)

(* parseInt(str) as processCountryData uses it on the period: the leading
   integer of the string (in units, not hundredths), NaN when there is none. *)
parseInt(str) ==
    LET t   == TrimLeft(str)
        neg == t # <<>> /\ Head(t) = "-"
        u   == IF t # <<>> /\ Head(t) \in {"-", "+"} THEN Tail(t) ELSE t
        ni  == DigitRun(u)
        mag == DigitsValue(SubSeq(u, 1, ni))
    IN  IF ni = 0 THEN Null ELSE Num(IF neg THEN 0 - mag ELSE mag)

---------------------------------------------------------------------------
(* dataTransformationService.ts *)

TransformationRule == {"multiplyBy100", "cut100", "nullZeros", "none"}

\* ToNumber(null) is 0 in the arithmetic of the rules
ToNumber(v) == IF IsNull(v) THEN 0 ELSE v[1]

\* the switch of transformValue's loop with a cut100 case that does nothing
ApplyRuleUncut(rule, v) ==
    CASE rule = "multiplyBy100" -> Num(ToNumber(v) * 100)
      [] rule = "nullZeros"     -> IF ~IsNull(v) /\ v[1] = 0 THEN Null ELSE v
      [] OTHER                  -> v

\* one pass of the switch in transformValue's loop
ApplyRule(rule, v) ==
    CASE rule = "multiplyBy100" -> Num(ToNumber(v) * 100)
      [] rule = "cut100"        -> Num(Min(ToNumber(v), 100 * Scale))
      [] rule = "nullZeros"     -> IF ~IsNull(v) /\ v[1] = 0 THEN Null ELSE v
      [] OTHER                  -> v

\* initializeDefaultRules
DefaultRules ==
    [uid \in {"BJXyRAkf2HZ", "Uvn6LCg7dVU", "o4iFtiN0YZh", "Rdbxu0qoX8U",
              "niYxtlxx68s", "IGQENa04DFm", "heI5NQZqZRW", "ZoMFYowPAkO",
              "eVYQuP1faAt", "ZnSwOwcQt52", "gZrHErmb74i", "P7pI8pyU313",
              "jDevPHyqPDX", "Ruv1osltwn4", "SQWZ8POEhMI", "rVUHAOEXV67",
              "LSlfr3VzLCp"} |->
        CASE uid \in {"BJXyRAkf2HZ", "Uvn6LCg7dVU", "o4iFtiN0YZh",
                      "Rdbxu0qoX8U", "rVUHAOEXV67"} -> <<"multiplyBy100">>
          [] uid = "niYxtlxx68s" -> <<"multiplyBy100", "nullZeros", "cut100">>
          [] uid \in {"ZoMFYowPAkO", "eVYQuP1faAt"} -> <<"multiplyBy100", "nullZeros">>
          [] uid = "Ruv1osltwn4" -> <<"cut100", "nullZeros">>
          [] OTHER -> <<"nullZeros">>]

\* getRules with a default of [nullZeros] for an unregistered identifier
getRulesNullZeros(registry, uid) ==
    IF uid \in DOMAIN registry THEN registry[uid] ELSE <<"nullZeros">>

\* getRules, on a registry
getRules(registry, uid) ==
    IF uid \in DOMAIN registry THEN registry[uid] ELSE <<"none">>

\* the for-loop of transformValue, with its break on null
\* the loop of transformValue without its break on null
RECURSIVE ApplyRulesNoBreak(_, _)
ApplyRulesNoBreak(rules, v) ==
    IF rules = <<>> THEN v
    ELSE ApplyRulesNoBreak(Tail(rules), ApplyRule(Head(rules), v))

RECURSIVE ApplyRules(_, _)
ApplyRules(rules, v) ==
    IF rules = <<>> THEN v
    ELSE LET w == ApplyRule(Head(rules), v)
         IN  IF IsNull(w) THEN w ELSE ApplyRules(Tail(rules), w)

transformValue(registry, value, uid) ==
    IF IsNull(value) THEN Null
    ELSE ApplyRules(getRules(registry, uid), value)

---------------------------------------------------------------------------
(* Bounds and input sets of the transformation service *)

MaxChain == 2

\* every list of at most MaxChain rules that change a value; the rule none
\* enters a chain through getRules
RuleChains ==
    UNION {[1..n -> TransformationRule \ {"none"}] : n \in 0..MaxChain}

\* the identifier callers register rules for: one the default registry lacks
RuleUids == {"eDlvedXdgwP"}

\* identifiers transformValue is called with: registered by default with
\* three, two and one rule, registered by a caller, never registered, and two
\* survey percentages of the guide
CallUids ==
    {"niYxtlxx68s", "Ruv1osltwn4", "BJXyRAkf2HZ", "eDlvedXdgwP", "yJfOFMOsfoQ",
     "ZnSwOwcQt52", "nvqnQcEbuPA"}

\* null, 0, 0.5, 0.85, 1, 1.5, -1
CallValues ==
    {Null, Num(0), Num(50), Num(85), Num(100), Num(150), Num(0 - 100)}

---------------------------------------------------------------------------
(* Operations of DataTransformationService *)

pcdVars == <<pc, period, remoteUnit, remote, stray, lookupFailed, countryCode,
             settled, error, dataMap, textDataMap, result>>

resolverVars == <<catalog, rows, sortedPolicyData, policies>>

profileVars == <<selection, builds, view>>

\* the state outside the two services
optionVars == <<optionSetCache, optionCatalog, invocation, osCall>>

shellVars == <<panel, dhis2, auth, ruleCall, dhis2Call>>

appVars == <<profileVars, optionVars, shellVars>>

\* what a call on the registry leaves alone
hostVars == <<tvCall, pcdVars, resolverVars, profileVars, optionVars, panel,
              dhis2, auth, dhis2Call>>

\* the record of a call on the registry
RuleCall(name, uid, rules, list, ruleString, returned) ==
    <<[name |-> name, uid |-> uid, rules |-> rules, list |-> list,
       ruleString |-> ruleString, returned |-> returned]>>

\* addRules that appends to the rules already registered
addRulesAppending(uid, rules) ==
    /\ transformationRules' =
         Put(transformationRules, uid,
             (IF uid \in DOMAIN transformationRules
              THEN transformationRules[uid] ELSE <<>>) \o rules)
    /\ ruleCall' = RuleCall("addRules", uid, rules, <<>>, <<>>, TRUE)
    /\ UNCHANGED hostVars

addRules(uid, rules) ==
    /\ transformationRules' = Put(transformationRules, uid, rules)
    /\ ruleCall' = RuleCall("addRules", uid, rules, <<>>, <<>>, TRUE)
    /\ UNCHANGED hostVars

\* addRule: addRules with the one rule as a list
addRule(uid, rule) ==
    /\ transformationRules' = Put(transformationRules, uid, <<rule>>)
    /\ ruleCall' = RuleCall("addRule", uid, <<rule>>, <<>>, <<>>, TRUE)
    /\ UNCHANGED hostVars

\* the forEach of addMultipleRules
RECURSIVE AddEach(_, _)
AddEach(registry, transformations) ==
    IF transformations = <<>> THEN registry
    ELSE AddEach(Put(registry, Head(transformations).uid,
                     Head(transformations).rules),
                 Tail(transformations))

addMultipleRules(transformations) ==
    /\ transformationRules' = AddEach(transformationRules, transformations)
    /\ ruleCall' = RuleCall("addMultipleRules", "", <<>>, transformations,
                            <<>>, TRUE)
    /\ UNCHANGED hostVars

removeRule(uid) ==
    /\ uid \in DOMAIN transformationRules
    /\ transformationRules' =
         [u \in DOMAIN transformationRules \ {uid} |-> transformationRules[u]]
    /\ ruleCall' = RuleCall("removeRule", uid, <<>>, <<>>, <<>>, TRUE)
    /\ UNCHANGED hostVars

clearAllRules ==
    /\ DOMAIN transformationRules # {}
    /\ transformationRules' = EmptyMap
    /\ ruleCall' = RuleCall("clearAllRules", "", <<>>, <<>>, <<>>, TRUE)
    /\ UNCHANGED hostVars

\* a caller (a chart) transforms one value
TransformValue(value, uid) ==
    /\ tvCall' = [uid    |-> uid,
                  value  |-> value,
                  rules  |-> getRules(transformationRules, uid),
                  result |-> transformValue(transformationRules, value, uid)]
    /\ UNCHANGED <<transformationRules, pcdVars, resolverVars, appVars>>

\* String.prototype.toLowerCase
toLowerCase(str) ==
    LET upper == <<"A", "B", "C", "D", "E", "F", "G", "H", "I", "J", "K", "L",
                   "M", "N", "O", "P", "Q", "R", "S", "T", "U", "V", "W", "X",
                   "Y", "Z">>
        lower == <<"a", "b", "c", "d", "e", "f", "g", "h", "i", "j", "k", "l",
                   "m", "n", "o", "p", "q", "r", "s", "t", "u", "v", "w", "x",
                   "y", "z">>
    IN  [i \in 1..Len(str) |->
            IF \E k \in 1..26 : upper[k] = str[i]
            THEN lower[CHOOSE k \in 1..26 : upper[k] = str[i]]
            ELSE str[i]]

\* String.prototype.split(',')
RECURSIVE split(_)
split(str) ==
    IF \A i \in 1..Len(str) : str[i] # ","
    THEN <<str>>
    ELSE LET i == CHOOSE j \in 1..Len(str) :
                      str[j] = "," /\ \A k \in 1..(j - 1) : str[k] # ","
         IN  <<SubSeq(str, 1, i - 1)>> \o split(Drop(str, i))

\* the string a sequence of characters spells: the identifiers and the rule
\* names that occur, in either spelling
Atom(chars) ==
    CASE chars = <<"m", "u", "l", "t", "i", "p", "l", "y", "B", "y", "1", "0",
                   "0">>
           -> "multiplyBy100"
      [] chars = <<"n", "u", "l", "l", "Z", "e", "r", "o", "s">>
           -> "nullZeros"
      [] chars = <<"c", "u", "t", "1", "0", "0">>
           -> "cut100"
      [] chars = <<"n", "o", "n", "e">>
           -> "none"
      [] chars = <<"m", "u", "l", "t", "i", "p", "l", "y", "b", "y", "1", "0",
                   "0">>
           -> "multiplyby100"
      [] chars = <<"n", "u", "l", "l", "z", "e", "r", "o", "s">>
           -> "nullzeros"
      [] chars = <<"B", "J", "X", "y", "R", "A", "k", "f", "2", "H", "Z">>
           -> "BJXyRAkf2HZ"
      [] chars = <<"e", "D", "l", "v", "e", "d", "X", "d", "g", "w", "P">>
           -> "eDlvedXdgwP"
      [] OTHER -> "unrecognised"

\* ruleString.match(/UID:\s*([A-Za-z0-9]{11})\s+should\s+(.+)/i): Null, or
\* the two groups of the leftmost match (the strings hold no line break)
MatchRuleString(ruleString) ==
    LET letters == {"a", "b", "c", "d", "e", "f", "g", "h", "i", "j", "k",
                    "l", "m", "n", "o", "p", "q", "r", "s", "t", "u", "v",
                    "w", "x", "y", "z"}
        alnum(c) == c \in Digits \/ toLowerCase(<<c>>)[1] \in letters
        MatchAt(s) ==
            IF Len(s) < 4
               \/ toLowerCase(SubSeq(s, 1, 4)) # <<"u", "i", "d", ":">>
            THEN Null
            ELSE
              LET a == TrimLeft(Drop(s, 4))
                  b == Drop(a, 11)
                  c == TrimLeft(b)
                  d == Drop(c, 6)
                  e == TrimLeft(d)
              IN  IF Len(a) < 11 \/ \E k \in 1..11 : ~alnum(a[k]) THEN Null
                  ELSE IF Len(c) = Len(b) \/ Len(c) < 6 THEN Null
                  ELSE IF toLowerCase(SubSeq(c, 1, 6))
                            # <<"s", "h", "o", "u", "l", "d">> THEN Null
                  ELSE IF Len(e) = Len(d) THEN Null
                  ELSE IF e # <<>>
                       THEN <<[uid |-> SubSeq(a, 1, 11), rulesString |-> e]>>
                  ELSE IF Len(d) >= 2
                       THEN <<[uid |-> SubSeq(a, 1, 11),
                               rulesString |-> <<d[Len(d)]>>]>>
                  ELSE Null
        starts == {i \in 1..Len(ruleString) :
                      MatchAt(Drop(ruleString, i - 1)) # Null}
    IN  IF starts = {} THEN Null
        ELSE MatchAt(Drop(ruleString,
                          (CHOOSE i \in starts : \A j \in starts : i <= j) - 1))

\* the rules addRuleFromString registers for a matched string
ParsedRules(rulesString) ==
    LET parts == split(rulesString)
    IN  [k \in DOMAIN parts |-> Atom(toLowerCase(trim(parts[k])))]

\* addRuleFromString
addRuleFromString(ruleString) ==
    LET match == MatchRuleString(ruleString)
    IN  IF match # Null
        THEN LET uid   == Atom(match[1].uid)
                 rules == ParsedRules(match[1].rulesString)
             IN  /\ transformationRules' = Put(transformationRules, uid, rules)
                 /\ ruleCall' = RuleCall("addRuleFromString", uid, rules,
                                         <<>>, ruleString, TRUE)
                 /\ UNCHANGED hostVars
        ELSE /\ ruleCall' = RuleCall("addRuleFromString", "", <<>>, <<>>,
                                     ruleString, FALSE)
             /\ UNCHANGED <<transformationRules, hostVars>>

\* rule strings: the documented example, one in other spellings, and two
\* that do not match the format
RuleStrings ==
    [documented |->
        <<"U", "I", "D", ":", " ", "B", "J", "X", "y", "R", "A", "k",
          "f", "2", "H", "Z", " ", "s", "h", "o", "u", "l", "d", " ",
          "m", "u", "l", "t", "i", "p", "l", "y", "B", "y", "1", "0",
          "0", ",", "n", "u", "l", "l", "Z", "e", "r", "o", "s">>,
     lowerCase |->
        <<"u", "i", "d", ":", "e", "D", "l", "v", "e", "d", "X", "d",
          "g", "w", "P", " ", " ", "S", "H", "O", "U", "L", "D", " ",
          "c", "u", "t", "1", "0", "0", " ", ",", " ", "n", "o", "n",
          "e">>,
     noPrefix |->
        <<"B", "J", "X", "y", "R", "A", "k", "f", "2", "H", "Z", " ",
          "s", "h", "o", "u", "l", "d", " ", "m", "u", "l", "t", "i",
          "p", "l", "y", "B", "y", "1", "0", "0">>,
     shortUid |->
        <<"U", "I", "D", ":", " ", "B", "J", "X", "y", "R", "A", "k",
          "f", "2", "H", " ", "s", "h", "o", "u", "l", "d", " ", "c",
          "u", "t", "1", "0", "0">>]

---------------------------------------------------------------------------
(* DHIS2Service: the held configuration and the header it sends *)

\* a DHIS2Config; an absent field is the empty string
Config(baseUrl, token, username, password) ==
    [baseUrl |-> baseUrl, token |-> token, username |-> username,
     password |-> password]

\* the header setConfig derives from a config, Null where it throws
AuthHeaderOf(config) ==
    IF config.token # "" THEN <<"Bearer", config.token>>
    ELSE IF config.username # "" /\ config.password # ""
         THEN <<"Basic", config.username, config.password>>
    ELSE Null

\* what every other part of the model leaves of a service call
serviceHost == <<transformationRules, tvCall, pcdVars, resolverVars, profileVars, optionVars,
                 panel, auth, ruleCall>>

\* the record of a call on the service
ServiceCall(name, threw, url, header) ==
    <<[name |-> name, threw |-> threw, url |-> url, header |-> header]>>

setConfig(config) ==
    /\ dhis2' = [config |-> <<config>>,
                 authHeader |-> IF AuthHeaderOf(config) = Null
                                THEN dhis2.authHeader
                                ELSE AuthHeaderOf(config),
                 isProduction |-> FALSE]
    /\ dhis2Call' = ServiceCall("setConfig", AuthHeaderOf(config) = Null,
                                "", Null)
    /\ UNCHANGED serviceHost

initializeProduction ==
    /\ dhis2' = [config |-> <<Config("origin", "", "", "")>>,
                 authHeader |-> Null,
                 isProduction |-> TRUE]
    /\ dhis2Call' = ServiceCall("initializeProduction", FALSE, "", Null)
    /\ UNCHANGED serviceHost

disconnect ==
    /\ dhis2' = IF dhis2.isProduction THEN dhis2
                ELSE [dhis2 EXCEPT !.config = Null, !.authHeader = Null]
    /\ dhis2Call' = ServiceCall("disconnect", FALSE, "", Null)
    /\ UNCHANGED serviceHost

\* getAnalyticsData up to its fetch: the URL and the Authorization header
getAnalyticsData ==
    /\ dhis2Call' =
         IF dhis2.config = Null
            \/ (dhis2.authHeader = Null /\ ~dhis2.isProduction)
         THEN ServiceCall("getAnalyticsData", TRUE, "", Null)
         ELSE ServiceCall("getAnalyticsData", FALSE, dhis2.config[1].baseUrl,
                          IF dhis2.isProduction THEN Null
                          ELSE dhis2.authHeader)
    /\ UNCHANGED <<dhis2, serviceHost>>

\* authenticate up to its fetch: it asks only for a config
authenticate ==
    /\ dhis2Call' =
         IF dhis2.config = Null
         THEN ServiceCall("authenticate", TRUE, "", Null)
         ELSE ServiceCall("authenticate", FALSE, dhis2.config[1].baseUrl,
                          IF dhis2.isProduction THEN Null
                          ELSE dhis2.authHeader)
    /\ UNCHANGED <<dhis2, serviceHost>>

\* the configs a connect form can hand over: three instances, each with its
\* own token, its own user and password, or with neither
Configs ==
    {Config("https://a", "tokenA", "", ""), Config("https://a", "", "userA", "pwA"),
     Config("https://a", "", "userA", ""), Config("https://a", "", "", ""),
     Config("https://b", "tokenB", "", ""), Config("https://b", "", "userB", "pwB"),
     Config("https://b", "", "", ""),
     Config("https://c", "tokenC", "", ""), Config("https://c", "", "userC", "pwC"),
     Config("https://c", "", "", "pwC")}

---------------------------------------------------------------------------
(* DataProcessingService: constants of processCountryData *)

Def(iv, st, p, y, from, until, order) ==
    [intervention |-> iv, strategy |-> st, policyUID |-> p, yearUID |-> y,
     validFromYear |-> from, validUntilYear |-> until, displayOrder |-> order]

countryInfoElements ==
    <<
        "r9twqeAdnRe", "Uk5ZiClT56N"
    >>

populationElements ==
    <<
        "LQSgzKhQoh8", "JsmA90dQeAh", "fh1QtNCJUyq", "eDlvedXdgwP"
    >>

parasiteElements ==
    <<
        "tEKjyFJFiw0", "PIUtvDhX4s6", "EZiGVGfTyLe", "IxSMxz5GT9U",
        "e76O7EJtWGk", "KT39UBQaP1w", "uu7tSgybizF", "sQmvMbqADAw"
    >>

casesElements ==
    <<
        "yJfOFMOsfoQ", "TfL9cVeMHyd", "gyAhkgE9tlU", "WuN5NAumc6J",
        "Z8mZlV7MnkP", "Zgw9XVftBa9", "Ykqy9bxrjEW", "gbrU43t4EVZ",
        "LpmvOoiEVf0"
    >>

estimatesElements ==
    <<
        "an08m0ybMb1", "b6YD3A8Dr2Q", "KKWevgN9TXF", "teNpUQqjMSQ",
        "NTePqFiUuS0", "uPJpcydAwET"
    >>

policyYesNoElements ==
    <<
        "Vm1oCupLZsS", "gagBPnUGmaY", "JKP3ANVLyjN", "H9P0BVxKBYM",
        "VBkox9y1nbh", "geSDyXkZNU1", "Q260gqIU0A1", "apgTbakUcGw",
        "myQQJ1wGzIs", "rSxvwUOJEQN", "lLdqBPGWhu1", "DyINPGgopL3",
        "MrVSpLKqDsp", "anvAOV5ht6p", "LFuetZdwR81", "DP8ImP6qAK2",
        "uVy7wsFKUKj", "AXnVeNe9yF9", "gzyORQNEpkZ", "KmPLPFZJpHU",
        "XHwHMqT5nmK"
    >>

policyYearElements ==
    <<
        "HzrPyUbuI3d", "vrqd6AO3eO0", "tbntOU0xvJo", "VDihj2VLq4A",
        "htRtowcXu3u", "n1L03jjC8ej", "E6hsEdJtWim", "kVxe33FsZSS",
        "NAHlVK5KLSo", "sRQbAHXFZqi", "NJZIDMAfHWt", "UKsKOT9K9SQ",
        "K822hl8P5cJ", "TtbfDs5cXt3", "bsgecIQFQvp", "BSYYdY5DPw4",
        "OJaWx05JgII", "sWXSI2KOQiQ", "HhSG5KOszRE", "SEzJzC07clE",
        "vHp4LHvdhGt"
    >>

treatmentPolicyElements ==
    <<
        "KSqJwXVSfbD", "cBQKI5gCOwN", "gz7J7ikcJ1e", "u4VCjjdqrVJ",
        "e6JiciQzwuh", "SQ8KJ8Xy2Pr", "zW6EYvOjMIo", "r3yxLB3VYRe",
        "lOvt1oXLdBr", "IA5JzgWAIop"
    >>

therapeuticEfficacyElements ==
    <<
        "UIwEygmwj1J", "l7q5DJ4yQMP", "BlBY4UdnWZM", "WMbpMQqde0V",
        "YHpCsWMQ6pE", "IBovXuvqLqM", "kcRHmPlregB", "lmkabfeVd1U",
        "rRs7tyHlgRc", "NSNQbWC8PiS", "vB7s4Xq6pkx", "QA2HfJ5ZOQ0",
        "w8R5rKb5KuT", "MCb8TWRSlb0", "RpyoOJfvdfW", "LRksI6Vhz98",
        "NrMNyIUB7RQ", "rrKtSwyOGd9", "a6bMWsqDlcR", "l87IZFzITds",
        "TvBs5GvflzK", "TzuDFOcom3h", "k7AvoFS3jii", "WdskU0t2N1i",
        "kp667EGomur", "C1WcroDjXOI", "b9Biv0I4khx", "K4IETv0ObQb",
        "bk4xSYYUTwX", "aQdJEFAqmg2", "Vh3SiBeiLqT", "ejBlfRCpZAB"
    >>

resistanceStatusElements ==
    <<
        "JRiVdTENIoc", "e0EfJGiSb79", "UKNTRFYcgr6", "YqvLJLueLT1",
        "Ub4bQGesaQa", "OXa48KUAIpl", "MnqhjD2JGWb", "FYGTLutUdIA",
        "jGFk8LVWdyS", "NU9WgELSDVk", "GI8boxUVl0X", "jDFQP0JQamH",
        "Putx3c0luqG", "hJ3v9S8AK5S", "AVEJomeEnuA", "catAlhTNBdV",
        "dQ8Zy175oQc", "id9O30pMkaD", "b4mMqIHFcIV", "AlLE4Na6ZaK"
    >>

rdtTypeElements ==
    <<
        "YNRlSV0dMPf"
    >>

treatmentMedicineElements ==
    <<
        "KSqJwXVSfbD", "gz7J7ikcJ1e", "e6JiciQzwuh", "zW6EYvOjMIo",
        "lOvt1oXLdBr", "aLWOXICfAbR"
    >>

anophelesElements ==
    {
        "EZiGVGfTyLe", "IxSMxz5GT9U", "e76O7EJtWGk", "KT39UBQaP1w",
        "uu7tSgybizF", "sQmvMbqADAw"
    }

resistanceTextElements ==
    {
        "JRiVdTENIoc", "e0EfJGiSb79", "YqvLJLueLT1", "OXa48KUAIpl",
        "jGFk8LVWdyS", "MnqhjD2JGWb", "GI8boxUVl0X", "hJ3v9S8AK5S",
        "jDFQP0JQamH", "catAlhTNBdV", "b4mMqIHFcIV", "dQ8Zy175oQc"
    }

sitesElements ==
    {
        "UKNTRFYcgr6", "FYGTLutUdIA", "Putx3c0luqG", "id9O30pMkaD"
    }

therapeuticYearUIDs ==
    {
        "l7q5DJ4yQMP", "NSNQbWC8PiS", "rrKtSwyOGd9", "C1WcroDjXOI"
    }

policyData ==
    <<
        Def("Diagnosis",
            "Malaria diagnosis with either microscopy or RDTs are free in the public sector",
            "lLdqBPGWhu1", "NJZIDMAfHWt", Null, Null, Num(1)),
        Def("Diagnosis",
            "Malaria diagnosis using RDT is free of charge in the public sector",
            "YsUd6nF0ueJ", "wUHmvm2OjXj", Null, Num(2023), Num(2)),
        Def("Diagnosis",
            "Malaria diagnosis using microscopy is free of charge in the public sector",
            "lzOLWfgxqWs", "b6gs2kxe1Uw", Null, Num(2023), Num(3)),
        Def("Diagnosis",
            "Malaria diagnosis is free of charge in the private sector",
            "UoeX8OFbDqx", "NfLyg6NTGae", Null, Num(2023), Num(4)),
        Def("Treatment",
            "ACTs for malaria treatment is free in the public sector",
            "DyINPGgopL3", "UKsKOT9K9SQ", Null, Null, Num(10)),
        Def("Treatment",
            "Primaquine is used for radical treatment of P. vivax",
            "ugIeZT18C10", "AL004HeA4Tj", Null, Num(2023), Num(12)),
        Def("Treatment",
            "G6PD test is a requirement before treatment with primaquine",
            "NYYgVn2hLl6", "uVNMyFdMcHT", Null, Num(2023), Num(13)),
        Def("Treatment",
            "Directly observed treatment with primaquine is undertaken",
            "E7xOl37PtKW", "fZnwco6AY75", Null, Num(2023), Num(14)),
        Def("Treatment",
            "System for monitoring of adverse reaction to antimalarials exists",
            "TmkBWN7YSsS", "uRsupJISCmR", Null, Num(2023), Num(15)),
        Def("Treatment",
            "ACT is delivered at community",
            "AXnVeNe9yF9", "sWXSI2KOQiQ", Null, Null, Num(11)),
        Def("Treatment",
            "Pre-referral Rx with rectal artesunate suppositories at community level",
            "gzyORQNEpkZ", "HhSG5KOszRE", Null, Null, Num(16)),
        Def("Treatment",
            "Single dose of primaquine is used as gametocidal medicine for P. falciparum",
            "KmPLPFZJpHU", "SEzJzC07clE", Null, Null, Num(17)),
        Def("Treatment",
            "The sale of oral artemisinin- based monotherapy drugs",
            "MrVSpLKqDsp", "K822hl8P5cJ", Null, Null, Num(18)),
        Def("IPT",
            "IPT used to prevent malaria during pregnancy",
            "geSDyXkZNU1", "n1L03jjC8ej", Null, Null, Num(20)),
        Def("IPT",
            "Community based delivery of IPTp (c-IPTp) is used to prevent malaria during pregnancy aligned with WHO recommendation",
            "Q260gqIU0A1", "E6hsEdJtWim", Num(2024), Null, Num(21)),
        Def("IPT",
            "Seasonal malaria chemoprevention (SMC) is used, aligned with WHO recommendation",
            "apgTbakUcGw", "kVxe33FsZSS", Num(2024), Null, Num(22)),
        Def("IPT",
            "Perennial Malaria Chemoprevention (PMC) is used, aligned with WHO recommendation",
            "myQQJ1wGzIs", "NAHlVK5KLSo", Num(2024), Null, Num(23)),
        Def("IPT",
            "Intermittent Preventive Treatment in school-aged children (IPTsc) is used, aligned with WHO recommendation",
            "rSxvwUOJEQN", "sRQbAHXFZqi", Num(2024), Null, Num(24)),
        Def("Surveillance",
            "Malaria is a notifiable disease",
            "anvAOV5ht6p", "TtbfDs5cXt3", Null, Null, Num(30)),
        Def("Surveillance",
            "Case investigation and classification is undertaken",
            "LFuetZdwR81", "bsgecIQFQvp", Null, Null, Num(31)),
        Def("Surveillance",
            "Foci investigation and classification is undertaken",
            "DP8ImP6qAK2", "BSYYdY5DPw4", Null, Null, Num(32)),
        Def("Surveillance",
            "ACD for case investigation (reactive)",
            "xlnxh4R7Gwt", "QcqpJldcsHj", Null, Num(2023), Num(33)),
        Def("Surveillance",
            "ACD at community level of febrile cases (pro-active)",
            "iTbPoUugAiA", "Bo0riNVa5V7", Null, Num(2023), Num(34)),
        Def("Surveillance",
            "Mass screening is undertaken",
            "MSf8VHWAkLj", "pYzj15BVyl8", Null, Num(2023), Num(35)),
        Def("Surveillance",
            "Uncomplicated P. falciparum cases routinely admitted",
            "usY6jfPj7jb", "Q3BxJwzOjn8", Null, Num(2023), Num(36)),
        Def("Surveillance",
            "Uncomplicated P. vivax cases routinely admitted",
            "tNePhPWXIce", "fqTk6BHqgzk", Null, Num(2023), Num(37)),
        Def("Surveillance",
            "Case reporting from private sector is mandatory",
            "uVy7wsFKUKj", "OJaWx05JgII", Null, Null, Num(38)),
        Def("ITN",
            "ITNs distributed free of charge through through mass campaign to all age groups",
            "gagBPnUGmaY", "vrqd6AO3eO0", Null, Null, Num(41)),
        Def("ITN",
            "ITNs distributed free of charge through routine channels to all age groups",
            "Vm1oCupLZsS", "HzrPyUbuI3d", Null, Null, Num(42)),
        Def("ITN",
            "ITNs durability is monitored",
            "XHwHMqT5nmK", "vHp4LHvdhGt", Null, Null, Num(43)),
        Def("IRS",
            "IRS is an intervention at the NMP",
            "JKP3ANVLyjN", "tbntOU0xvJo", Null, Null, Num(51)),
        Def("IRS",
            "DDT is used for IRS",
            "H9P0BVxKBYM", "VDihj2VLq4A", Null, Null, Num(52)),
        Def("Larval source management ",
            "Use of Larval source management",
            "VBkox9y1nbh", "htRtowcXu3u", Null, Null, Num(60))
    >>

Range(seq) == {seq[i] : i \in DOMAIN seq}

\* the requests of the Promise.all, in the order they are listed
Groups ==
    <<countryInfoElements, populationElements, parasiteElements,
      casesElements, estimatesElements, policyYesNoElements,
      policyYearElements, treatmentPolicyElements,
      therapeuticEfficacyElements, resistanceStatusElements,
      rdtTypeElements>>

\* the condition of the merge loop's if: the element is a text element
\* the classification without the site and therapeutic-efficacy year lists
IsTextElementLegacy(dataElement) ==
    \/ dataElement \in Range(policyYesNoElements)
    \/ dataElement \in Range(treatmentMedicineElements)
    \/ dataElement \in anophelesElements
    \/ dataElement \in resistanceTextElements
    \/ dataElement \in {"UIwEygmwj1J", "IBovXuvqLqM", "lmkabfeVd1U",
                        "YNRlSV0dMPf", "rRs7tyHlgRc", "MCb8TWRSlb0",
                        "LRksI6Vhz98", "NrMNyIUB7RQ", "TzuDFOcom3h",
                        "WdskU0t2N1i", "kp667EGomur", "aQdJEFAqmg2",
                        "ejBlfRCpZAB"}

\* the condition, given the list declared as policyYesNoElements
IsTextElementGiven(yesNo, dataElement) ==
    \/ dataElement \in Range(yesNo)
    \/ dataElement \in Range(treatmentMedicineElements)
    \/ dataElement \in anophelesElements
    \/ dataElement \in resistanceTextElements
    \/ dataElement \in sitesElements
    \/ dataElement \in therapeuticYearUIDs
    \/ dataElement \in {"UIwEygmwj1J", "IBovXuvqLqM", "lmkabfeVd1U",
                        "YNRlSV0dMPf", "LpmvOoiEVf0", "rRs7tyHlgRc",
                        "MCb8TWRSlb0", "LRksI6Vhz98", "NrMNyIUB7RQ",
                        "TzuDFOcom3h", "WdskU0t2N1i", "kp667EGomur",
                        "aQdJEFAqmg2", "ejBlfRCpZAB"}

IsTextElement(dataElement) ==
    IsTextElementGiven(policyYesNoElements, dataElement)

E2025_COUNTRIES ==
    {"BLZ", "BTN", "BWA", "CPV", "COM", "CRI", "PRK", "DOM", "ECU", "SWZ",
     "GUF", "GTM", "HND", "IRN", "MYS", "MEX", "NPL", "PAN", "KOR", "STP",
     "SAU", "ZAF", "SUR", "THA", "TLS", "VUT"}

isE2025Country(code) == code \in E2025_COUNTRIES

estIndigCountriesArray == {"COM", "SWZ", "THA"}

E2025ShowEstimatesArray == {"NPL"}

\* the sort comparator's stand-in for an undefined displayOrder
UndefinedOrder == 999999

---------------------------------------------------------------------------
(* DataProcessingService: the merge loop *)

\* parseFloat(rawValue) || 0
NumericValue(rawValue) ==
    LET parsed == parseFloat(rawValue)
    IN  IF IsNull(parsed) \/ parsed[1] = 0 THEN 0 ELSE parsed[1]

\* a merge that hands each parsed number to transformValue before storing it
MergeRowTransformed(maps, row) ==
    LET dataElement == row[1]
        rawValue    == row[4]
        transformed == transformValue(transformationRules,
                                      Num(NumericValue(rawValue)), dataElement)
    IN  IF IsTextElement(dataElement)
        THEN [maps EXCEPT !.text = Put(@, dataElement, rawValue)]
        ELSE [maps EXCEPT !.data = Put(@, dataElement, ToNumber(transformed))]

\* a loop body that leaves out a numeric row whose value does not parse
MergeRowSkipUnparsable(maps, row) ==
    LET dataElement == row[1]
        rawValue    == row[4]
    IN  IF IsTextElement(dataElement)
        THEN [maps EXCEPT !.text = Put(@, dataElement, rawValue)]
        ELSE IF IsNull(parseFloat(rawValue)) THEN maps
        ELSE [maps EXCEPT !.data = Put(@, dataElement, NumericValue(rawValue))]

\* the body of the inner forEach: one row into the two maps
MergeRow(maps, row) ==
    LET dataElement == row[1]
        rawValue    == row[4]
    IN  IF IsTextElement(dataElement)
        THEN [maps EXCEPT !.text = Put(@, dataElement, rawValue)]
        ELSE [maps EXCEPT !.data = Put(@, dataElement, NumericValue(rawValue))]

\* the two nested forEach loops, over the rows of all responses in order
RECURSIVE MergeRows(_, _)
MergeRows(maps, allRows) ==
    IF allRows = <<>> THEN maps
    ELSE MergeRows(MergeRow(maps, Head(allRows)), Tail(allRows))

\* the two loops, given the list declared as policyYesNoElements
RECURSIVE MergeRowsGiven(_, _, _)
MergeRowsGiven(yesNo, maps, allRows) ==
    IF allRows = <<>> THEN maps
    ELSE LET dataElement == Head(allRows)[1]
             rawValue    == Head(allRows)[4]
         IN  MergeRowsGiven(yesNo,
                 IF IsTextElementGiven(yesNo, dataElement)
                 THEN [maps EXCEPT !.text = Put(@, dataElement, rawValue)]
                 ELSE [maps EXCEPT
                          !.data = Put(@, dataElement, NumericValue(rawValue))],
                 Tail(allRows))

EmptyMaps == [data |-> EmptyMap, text |-> EmptyMap]

\* dataMap.get(key) || 0
GetOr0(map, key) == IF key \in DOMAIN map THEN map[key] ELSE 0

\* dataMap.get(key) || null
GetOrNull(map, key) ==
    IF key \in DOMAIN map /\ map[key] # 0 THEN Num(map[key]) ELSE Null

\* a lookup whose default is '-' whatever default is asked for
TextOrDash(map, key, dflt) ==
    IF key \in DOMAIN map /\ map[key] # <<>> THEN map[key] ELSE <<"-">>

\* textDataMap.get(key) || dflt
TextOr(map, key, dflt) ==
    IF key \in DOMAIN map /\ map[key] # <<>> THEN map[key] ELSE dflt

---------------------------------------------------------------------------
(* DataProcessingService: the policy list *)

S_Y == <<"Y">>

S_Y1 == <<"Y", "1">>

S_N == <<"N">>

S_Dash == <<"-">>

S_YesStar == <<"Y", "e", "s", "*">>

S_Yes == <<"Y", "e", "s">>

S_No == <<"N", "o">>

S_HasNeverBeenAllowed ==
    <<"h", "a", "s", " ", "n", "e", "v", "e", "r", " ", "b", "e", "e", "n", " ", "a", "l", "l", "o", "w", "e", "d">>

S_IsBanned == <<"i", "s", " ", "b", "a", "n", "n", "e", "d">>

\* the mapping with the labels of Y and Y1 exchanged
processPolicyValueSwapped(rawValue) ==
    CASE rawValue = S_Y  -> [displayText |-> S_Yes, implemented |-> TRUE]
      [] rawValue = S_Y1 -> [displayText |-> S_YesStar, implemented |-> TRUE]
      [] rawValue = S_N  -> [displayText |-> S_No, implemented |-> FALSE]
      [] OTHER           -> [displayText |-> S_Dash, implemented |-> FALSE]

processPolicyValue(rawValue) ==
    CASE rawValue = S_Y  -> [displayText |-> S_YesStar, implemented |-> TRUE]
      [] rawValue = S_Y1 -> [displayText |-> S_Yes, implemented |-> TRUE]
      [] rawValue = S_N  -> [displayText |-> S_No, implemented |-> FALSE]
      [] OTHER           -> [displayText |-> S_Dash, implemented |-> FALSE]

\* an optional number is truthy: present, and not 0
Truthy(x) == ~IsNull(x) /\ x[1] # 0

\* a filter whose bounds shut out the boundary year itself
FilterPolicyExclusive(policy, currentYear) ==
    /\ ~(/\ Truthy(policy.validUntilYear)
         /\ ~IsNull(currentYear)
         /\ currentYear[1] >= policy.validUntilYear[1])
    /\ ~(/\ Truthy(policy.validFromYear)
         /\ ~IsNull(currentYear)
         /\ currentYear[1] <= policy.validFromYear[1])

\* the callback of policyData.filter; currentYear may be NaN
FilterPolicy(policy, currentYear) ==
    /\ ~(/\ Truthy(policy.validUntilYear)
         /\ ~IsNull(currentYear)
         /\ currentYear[1] > policy.validUntilYear[1])
    /\ ~(/\ Truthy(policy.validFromYear)
         /\ ~IsNull(currentYear)
         /\ currentYear[1] < policy.validFromYear[1])

\* a filter step that keeps every definition
SelectEveryPolicy(defs, currentYear) == defs

RECURSIVE SelectPolicies(_, _)
SelectPolicies(defs, currentYear) ==
    IF defs = <<>> THEN <<>>
    ELSE (IF FilterPolicy(Head(defs), currentYear) THEN <<Head(defs)>> ELSE <<>>)
         \o SelectPolicies(Tail(defs), currentYear)

\* a.displayOrder || 0
OrderOfZero(policy) ==
    IF IsNull(policy.displayOrder) THEN 0 ELSE policy.displayOrder[1]

\* a.displayOrder ?? 999999
OrderOf(policy) ==
    IF IsNull(policy.displayOrder) THEN UndefinedOrder ELSE policy.displayOrder[1]

\* the comparator handed to sort
ComparePolicies(a, b) == OrderOf(a) - OrderOf(b)

\* x placed before the first element of the sorted list that compares greater
RECURSIVE InsertPolicy(_, _)
InsertPolicy(sorted, x) ==
    IF sorted = <<>> THEN <<x>>
    ELSE IF ComparePolicies(Head(sorted), x) > 0 THEN <<x>> \o sorted
    ELSE <<Head(sorted)>> \o InsertPolicy(Tail(sorted), x)

\* Array.prototype.sort with that comparator: a stable sort
RECURSIVE SortPolicies(_)
SortPolicies(defs) ==
    IF defs = <<>> THEN <<>>
    ELSE InsertPolicy(SortPolicies(SubSeq(defs, 1, Len(defs) - 1)), defs[Len(defs)])

\* yearValue ? Math.trunc(yearValue) : null
YearAdoptedTruncated(yearValue) ==
    IF Truthy(yearValue) THEN Num((yearValue[1] \div Scale) * Scale) ELSE Null

\* yearValue ? Number(yearValue) : null; Number of a number is that number
YearAdopted(yearValue) == IF Truthy(yearValue) THEN yearValue ELSE Null

\* the callback without the branch for MrVSpLKqDsp
InterpretPolicyStandard(item, maps) ==
    LET rawPolicyValue == TextOr(maps.text, item.policyUID, S_N)
        yearValue      == GetOrNull(maps.data, item.yearUID)
        policyResult   == processPolicyValue(rawPolicyValue)
    IN  [intervention |-> item.intervention,
         strategy     |-> item.strategy,
         policy       |-> policyResult.displayText,
         implemented  |-> policyResult.implemented,
         yearAdopted  |-> YearAdopted(yearValue)]

\* the callback of sortedPolicyData.map
InterpretPolicy(item, maps) ==
    LET rawPolicyValue  == TextOr(maps.text, item.policyUID, S_N)
        yearValue       == GetOrNull(maps.data, item.yearUID)
        normalizedValue == trim(rawPolicyValue)
        policyResult    == processPolicyValue(rawPolicyValue)
        out(policy, implemented) ==
            [intervention |-> item.intervention,
             strategy     |-> item.strategy,
             policy       |-> policy,
             implemented  |-> implemented,
             yearAdopted  |-> YearAdopted(yearValue)]
    IN  IF item.policyUID = "MrVSpLKqDsp"
        THEN IF normalizedValue \in {S_HasNeverBeenAllowed, S_IsBanned}
             THEN out(normalizedValue, TRUE)
             ELSE out(IF rawPolicyValue # <<>> THEN rawPolicyValue ELSE S_Dash, FALSE)
        ELSE out(policyResult.displayText, policyResult.implemented)

RECURSIVE MapPolicies(_, _)
MapPolicies(defs, maps) ==
    IF defs = <<>> THEN <<>>
    ELSE <<InterpretPolicy(Head(defs), maps)>> \o MapPolicies(Tail(defs), maps)

\* policyData.filter(...).sort(...) for one period
SortedPolicyData(defs, periodStr) ==
    SortPolicies(SelectPolicies(defs, parseInt(periodStr)))

\* filter, sort and map of the policy catalog for one period
ResolvePolicies(defs, periodStr, maps) ==
    MapPolicies(SortedPolicyData(defs, periodStr), maps)

---------------------------------------------------------------------------
(* DataProcessingService.processCountryData as a process *)

OrgUnit == "ou1"

GroupIds == DOMAIN Groups

\* what the remote store answers to one grouped query: a row for every
\* requested element it holds a value for
RECURSIVE RowsFor(_, _, _)
RowsFor(elements, store, pe) ==
    IF elements = <<>> THEN <<>>
    ELSE (IF Head(elements) \in DOMAIN store
          THEN <<<<Head(elements), OrgUnit, pe, store[Head(elements)]>>>>
          ELSE <<>>)
         \o RowsFor(Tail(elements), store, pe)

\* the rows of the response to the g-th grouped query: what the store holds
\* of the requested elements, and the stray row when the remote adds one to
\* this response; the remote does not change while the queries are in flight
Response(g) ==
    RowsFor(Groups[g], remote, period)
    \o (IF stray # Null /\ stray.group = g THEN <<stray.row>> ELSE <<>>)

\* an order of folding that takes the response that arrived last, g, last
FoldOrderByCompletion(g) ==
    SelectSeq([i \in 1..Len(Groups) |-> i], LAMBDA i : i # g) \o <<g>>

\* the order of allAnalyticsData: the order of the requests, whichever
\* response g arrived last
FoldOrder(g) == [i \in 1..Len(Groups) |-> i]

\* allAnalyticsData, flattened
RECURSIVE AllAnalyticsData(_)
AllAnalyticsData(order) ==
    IF order = <<>> THEN <<>>
    ELSE Response(Head(order)) \o AllAnalyticsData(Tail(order))

\* Promise.allSettled over the promises' states
PromiseAllSettled(states) ==
    IF \A g \in DOMAIN states : states[g] \in {"fulfilled", "rejected"}
    THEN "fulfilled"
    ELSE "pending"

\* Promise.all over the promises' states
PromiseAll(states) ==
    IF \E g \in DOMAIN states : states[g] = "rejected" THEN "rejected"
    ELSE IF \A g \in DOMAIN states : states[g] = "fulfilled" THEN "fulfilled"
    ELSE "pending"

\* orgUnitData.code || ''
CodeOf(unit) == IF IsNull(unit) THEN "" ELSE unit[1]

\* showEstimates without the exception list: !isE2025
ShowEstimatesNoException(code) == ~isE2025Country(code)

\* showEstimates = !isE2025 || E2025ShowEst
ShowEstimates(code) ==
    ~isE2025Country(code) \/ code \in E2025ShowEstimatesArray

\* the record processCountryData returns, from the merged maps
BuildRecord(maps, code, defs, periodStr) ==
    [population |->
        [highTransmission |-> GetOr0(maps.data, "LQSgzKhQoh8"),
         lowTransmission  |-> GetOr0(maps.data, "JsmA90dQeAh"),
         malariaFree      |-> GetOr0(maps.data, "fh1QtNCJUyq"),
         total            |-> GetOr0(maps.data, "eDlvedXdgwP")],
     cases |->
        [totalCases          |-> GetOr0(maps.data, "yJfOFMOsfoQ"),
         totalConfirmedCases |-> GetOr0(maps.data, "TfL9cVeMHyd"),
         reportedIndigenousConfirmedCases |-> GetOr0(maps.data, "gyAhkgE9tlU"),
         reportedDeaths      |-> GetOr0(maps.data, "Ykqy9bxrjEW"),
         indigenousDeaths    |-> GetOr0(maps.data, "gbrU43t4EVZ"),
         paramEpiDisplay     |-> GetOr0(maps.data, "Uk5ZiClT56N"),
         footnoteText        |-> TextOr(maps.text, "LpmvOoiEVf0", Null),
         indigSource         |-> GetOr0(maps.data, "r9twqeAdnRe")],
     policies      |-> ResolvePolicies(defs, periodStr, maps),
     rdtType       |-> TextOr(maps.text, "YNRlSV0dMPf", S_Dash),
     showEstimates |-> ShowEstimates(code),
     countryCode   |-> code]

transformVars == <<transformationRules, tvCall>>

\* a call that issues the grouped queries together with the lookup
StartConcurrent ==
    /\ pc = "idle"
    /\ pc' = "lookup"
    /\ countryCode' = ""
    /\ settled' = [g \in GroupIds |-> "pending"]
    /\ UNCHANGED <<period, remoteUnit, remote, stray, lookupFailed, error,
                   dataMap, textDataMap, result, transformVars, resolverVars,
                   appVars>>

\* processCountryData(orgUnit, period) is called
Start ==
    /\ pc = "idle"
    /\ pc' = "lookup"
    /\ countryCode' = ""
    /\ UNCHANGED <<period, remoteUnit, remote, stray, lookupFailed, settled, error,
                   dataMap, textDataMap, result, transformVars, resolverVars,
                   appVars>>

\* getOrganisationUnit resolves; the grouped queries are then issued
LookupResolves ==
    /\ pc = "lookup"
    /\ countryCode' = CodeOf(remoteUnit)
    /\ settled' = [g \in GroupIds |-> "pending"]
    /\ pc' = "fetch"
    /\ UNCHANGED <<period, remoteUnit, remote, stray, lookupFailed, error, dataMap,
                   textDataMap, result, transformVars, resolverVars,
                   appVars>>

\* getOrganisationUnit rejects and nothing catches it before the outer catch
LookupRejectsFatal ==
    /\ pc = "lookup"
    /\ lookupFailed' = TRUE
    /\ error' = Num(0)
    /\ pc' = "rejected"
    /\ UNCHANGED <<period, remoteUnit, remote, stray, countryCode, settled, dataMap,
                   textDataMap, result, transformVars, resolverVars,
                   appVars>>

\* getOrganisationUnit rejects: the catch logs, countryCode stays ''
LookupRejects ==
    /\ pc = "lookup"
    /\ lookupFailed' = TRUE
    /\ settled' = [g \in GroupIds |-> "pending"]
    /\ pc' = "fetch"
    /\ UNCHANGED <<period, remoteUnit, remote, stray, countryCode, error, dataMap,
                   textDataMap, result, transformVars, resolverVars,
                   appVars>>

\* the code after await Promise.all, once every response is in
Continue(g) ==
    LET maps == MergeRows(EmptyMaps, AllAnalyticsData(FoldOrder(g)))
    IN  /\ dataMap' = maps.data
        /\ textDataMap' = maps.text
        /\ result' = BuildRecord(maps, countryCode, catalog, period)
        /\ pc' = "done"
        /\ UNCHANGED error

\* the catch of processCountryData: log and rethrow
Catch(g) ==
    /\ error' = Num(g)
    /\ pc' = "rejected"
    /\ UNCHANGED <<dataMap, textDataMap, result>>

\* what a settled query does to processCountryData, waiting on Promise.all
AfterSettle(g) ==
    LET all == PromiseAll(settled')
    IN  IF all = "fulfilled" THEN Continue(g)
        ELSE IF all = "rejected" THEN Catch(g)
        ELSE UNCHANGED <<pc, error, dataMap, textDataMap, result>>

\* the grouped query g resolves with the remote's rows
GroupResolves ==
    \E g \in GroupIds :
        /\ pc = "fetch"
        /\ settled[g] = "pending"
        /\ settled' = [settled EXCEPT ![g] = "fulfilled"]
        /\ AfterSettle(g)
        /\ UNCHANGED <<period, remoteUnit, remote, stray, lookupFailed, countryCode,
                       transformVars, resolverVars,
                   appVars>>

\* the grouped query g rejects
GroupRejects ==
    \E g \in GroupIds :
        /\ pc = "fetch"
        /\ settled[g] = "pending"
        /\ settled' = [settled EXCEPT ![g] = "rejected"]
        /\ AfterSettle(g)
        /\ UNCHANGED <<period, remoteUnit, remote, stray, lookupFailed, countryCode,
                       transformVars, resolverVars,
                   appVars>>

---------------------------------------------------------------------------
(* The merge step and the policy resolver applied to drawn inputs *)

\* the merge loop runs over the rows
Merge ==
    /\ pc = "rows"
    /\ LET maps == MergeRows(EmptyMaps, rows)
       IN  /\ dataMap' = maps.data
           /\ textDataMap' = maps.text
    /\ pc' = "merged"
    /\ UNCHANGED <<period, remoteUnit, remote, stray, lookupFailed, countryCode,
                   settled, error, result, transformVars, resolverVars,
                   appVars>>

\* the policy list is resolved from the merged maps
Resolve ==
    /\ pc = "merged"
    /\ sortedPolicyData' = SortedPolicyData(catalog, period)
    /\ policies' = ResolvePolicies(catalog, period,
                                   [data |-> dataMap, text |-> textDataMap])
    /\ pc' = "resolved"
    /\ UNCHANGED <<period, remoteUnit, remote, stray, lookupFailed, countryCode,
                   settled, error, dataMap, textDataMap, result, catalog,
                   rows, transformVars, appVars>>

\* the rows of the responses to the queries of a list of groups, in the
\* order of the list
RECURSIVE RowsOfGroups(_, _, _)
RowsOfGroups(groups, store, pe) ==
    IF groups = <<>> THEN <<>>
    ELSE RowsFor(Head(groups), store, pe)
         \o RowsOfGroups(Tail(groups), store, pe)

\* fetch and merge of processCountryData with its identifiers declared in
\* the given groups, of which the yn-th is the one named policyYesNoElements
\* (yn = 0: that group holds none of the identifiers looked at)
Regroup(groups, yn) ==
    /\ pc = "idle"
    /\ yn <= Len(groups)
    /\ rows' = RowsOfGroups(groups, remote, period)
    /\ LET yesNo == IF yn = 0 THEN <<>> ELSE groups[yn]
           maps  == MergeRowsGiven(yesNo, EmptyMaps, rows')
       IN  /\ dataMap' = maps.data
           /\ textDataMap' = maps.text
    /\ pc' = "merged"
    /\ UNCHANGED <<period, remoteUnit, remote, stray, lookupFailed,
                   countryCode, settled, error, result, catalog,
                   sortedPolicyData, policies, transformVars, appVars>>

---------------------------------------------------------------------------
(* Inputs *)

P_2023 == <<"2", "0", "2", "3">>

P_2024 == <<"2", "0", "2", "4">>

\* the reporting years the selector offers
Periods == {P_2023, P_2024}

R_Empty == <<>>

R_Half == <<"0", ".", "5">>

R_Abc == <<"a", "b", "c">>

R_Zero == <<"0">>

R_2015 == <<"2", "0", "1", "5">>

R_2015h == <<"2", "0", "1", "5", ".", "5">>

R_YearRange == <<"2", "0", "1", "6", "-", "2", "0", "2", "0">>

R_Q == <<"Q">>

R_IsBannedPadded == <<" ", "i", "s", " ", "b", "a", "n", "n", "e", "d", " ">>

R_HasNeverCapital ==
    <<"H", "a", "s", " ", "n", "e", "v", "e", "r", " ", "b", "e", "e", "n", " ", "a", "l", "l", "o", "w", "e", "d">>

R_SometimesPadded == <<" ", "s", "o", "m", "e", "t", "i", "m", "e", "s">>

R_Two == <<"2">>

\* raw values drawn for: a standard policy element, the oral-monotherapy
\* element, a policy year element, a numeric element, a therapeutic-efficacy
\* year element
RawValuesOf(uid) ==
    CASE uid = "lLdqBPGWhu1" -> {S_Y, S_Y1, S_N, R_Q}
      [] uid = "MrVSpLKqDsp" -> {R_IsBannedPadded, S_HasNeverBeenAllowed,
                                 R_HasNeverCapital, R_SometimesPadded, R_Empty}
      [] uid = "NJZIDMAfHWt" -> {R_2015, R_Zero, R_2015h}
      [] uid = "eDlvedXdgwP" -> {R_Half, R_Abc, R_Empty}
      [] uid = "l7q5DJ4yQMP" -> {R_YearRange}

ProbeUids == {"lLdqBPGWhu1", "MrVSpLKqDsp", "NJZIDMAfHWt", "eDlvedXdgwP", "l7q5DJ4yQMP"}

ProbeRows ==
    UNION {{<<uid, OrgUnit, P_2024, raw>> : raw \in RawValuesOf(uid)} : uid \in ProbeUids}

MaxRows == 2

RowSeqs == UNION {[1..n -> ProbeRows] : n \in 0..MaxRows}

\* the rule list a caller registers for the numeric probe before a merge
MergeChains == {<<"multiplyBy100">>}

\* remote stores of the process model
RemoteA ==
    [uid \in {"Uk5ZiClT56N", "eDlvedXdgwP", "lLdqBPGWhu1", "NJZIDMAfHWt",
              "MrVSpLKqDsp", "l7q5DJ4yQMP", "YNRlSV0dMPf"} |->
        CASE uid = "Uk5ZiClT56N" -> R_Two
          [] uid = "eDlvedXdgwP" -> R_Half
          [] uid = "lLdqBPGWhu1" -> S_Y1
          [] uid = "NJZIDMAfHWt" -> R_2015
          [] uid = "MrVSpLKqDsp" -> S_IsBanned
          [] uid = "l7q5DJ4yQMP" -> R_YearRange
          [] OTHER -> R_Q]

Remotes == {EmptyMap, RemoteA}

\* identifiers regrouped: a population count, a policy text, a policy year
GroupedIds == <<"eDlvedXdgwP", "lLdqBPGWhu1", "NJZIDMAfHWt">>

\* every way of declaring the three identifiers: in each order, in one, two
\* or three groups
Groupings ==
    UNION {{<<f>>,
            <<SubSeq(f, 1, 1), SubSeq(f, 2, 3)>>,
            <<SubSeq(f, 1, 2), SubSeq(f, 3, 3)>>,
            <<SubSeq(f, 1, 1), SubSeq(f, 2, 2), SubSeq(f, 3, 3)>>} :
           f \in {h \in [1..3 -> Range(GroupedIds)] :
                      \A i, j \in 1..3 : h[i] = h[j] => i = j}}

\* remote stores that hold a value for some of the three identifiers
GroupStores ==
    UNION {{st \in [held -> {R_Half, R_2015, S_Y, S_N}] :
               \A uid \in held :
                   st[uid] \in (IF uid = "lLdqBPGWhu1" THEN {S_Y, S_N}
                                ELSE {R_Half, R_2015})} :
           held \in SUBSET Range(GroupedIds)}

\* a row for an element of another group, with a value other than the
\* store's, added to the first or to the last response
Strays ==
    {[group |-> g, row |-> <<e[1], OrgUnit, P_2024, e[2]>>] :
        g \in {1, Len(Groups)},
        e \in {<<"eDlvedXdgwP", R_2015>>, <<"lLdqBPGWhu1", S_N>>}}

\* the organisation unit's code field: absent, not E2025, E2025, E2025 with
\* the estimates exception
RemoteUnits == {Null, <<"AGO">>, <<"BLZ">>, <<"NPL">>}

MaxCatalog == 3

\* definitions drawn for the resolver: two entries told apart by their text,
\* with each validity window of the catalog and with displayOrder absent,
\* equal or different
DefPool ==
    {Def("Treatment", "A", "lLdqBPGWhu1", "NJZIDMAfHWt", w[1], w[2], o) :
        w \in {<<Null, Null>>, <<Null, Num(2023)>>, <<Num(2024), Null>>},
        o \in {Null, Num(1), Num(2)}}
    \cup
    {Def("Treatment", "B", "MrVSpLKqDsp", "K822hl8P5cJ", Null, Null, o) :
        o \in {Null, Num(1), Num(2)}}

Catalogs == UNION {[1..n -> DefPool] : n \in 0..MaxCatalog}

---------------------------------------------------------------------------
(* CountryProfile: the effect on [country.id, period] and loadCountryData *)

\* the component's state after useState(...): nothing loaded
NoView == [data |-> Null, unit |-> Null, loading |-> FALSE, error |-> Null]

\* the organisation units the selector offers
Countries == {"ou1", "ou2"}

Selections == Countries \X Periods

MaxBuilds == 3

\* the effect body: loadCountryData() up to its first await
RunEffect(sel) ==
    /\ builds' = Append(builds, [sel |-> sel, stage |-> "process"])
    /\ view' = [view EXCEPT !.loading = TRUE, !.error = Null]

\* the component mounts with the first selection
Mount(sel) ==
    /\ selection = Null
    /\ selection' = sel
    /\ RunEffect(sel)
    /\ UNCHANGED <<pcdVars, transformVars, resolverVars, optionVars, shellVars>>

\* handleCountrySelect / handleYearSelect: the props change, the effect reruns
Select(sel) ==
    /\ selection # Null
    /\ sel # selection
    /\ Len(builds) < MaxBuilds
    /\ selection' = sel
    /\ RunEffect(sel)
    /\ UNCHANGED <<pcdVars, transformVars, resolverVars, optionVars, shellVars>>

\* await processCountryData(...) resolves in call b: setData
ProcessResolves(b) ==
    /\ builds[b].stage = "process"
    /\ builds' = [builds EXCEPT ![b].stage = "unit"]
    /\ view' = [view EXCEPT !.data = <<builds[b].sel>>]
    /\ UNCHANGED <<selection, pcdVars, transformVars, resolverVars, optionVars, shellVars>>

\* the Retry button of the error panel: loadCountryData() once more
Retry ==
    /\ selection # Null
    /\ ~view.loading
    /\ view.error # Null
    /\ Len(builds) < MaxBuilds
    /\ RunEffect(selection)
    /\ UNCHANGED <<selection, pcdVars, transformVars, resolverVars, optionVars, shellVars>>

\* a rejection handled by a catch with no finally after it
ProcessRejectsNoFinally(b) ==
    /\ builds[b].stage = "process"
    /\ builds' = [builds EXCEPT ![b].stage = "failed"]
    /\ view' = [view EXCEPT !.error = <<builds[b].sel>>]
    /\ UNCHANGED <<selection, pcdVars, transformVars, resolverVars, optionVars, shellVars>>

\* await processCountryData(...) rejects in call b: catch, finally
ProcessRejects(b) ==
    /\ builds[b].stage = "process"
    /\ builds' = [builds EXCEPT ![b].stage = "failed"]
    /\ view' = [view EXCEPT !.error = <<builds[b].sel>>, !.loading = FALSE]
    /\ UNCHANGED <<selection, pcdVars, transformVars, resolverVars, optionVars, shellVars>>

\* await getOrganisationUnit(...) resolves in call b: setOrgUnitDetails,
\* setRegionHeader, finally
UnitResolves(b) ==
    /\ builds[b].stage = "unit"
    /\ builds' = [builds EXCEPT ![b].stage = "done"]
    /\ view' = [view EXCEPT !.unit = <<builds[b].sel[1]>>, !.loading = FALSE]
    /\ UNCHANGED <<selection, pcdVars, transformVars, resolverVars, optionVars, shellVars>>

\* await getOrganisationUnit(...) rejects in call b: catch, finally
UnitRejects(b) ==
    /\ builds[b].stage = "unit"
    /\ builds' = [builds EXCEPT ![b].stage = "unitFailed"]
    /\ view' = [view EXCEPT !.error = <<builds[b].sel>>, !.loading = FALSE]
    /\ UNCHANGED <<selection, pcdVars, transformVars, resolverVars, optionVars, shellVars>>

---------------------------------------------------------------------------
(* DataProcessingService.getOptionSetValue and its cache *)

\* the option sets processCountryData resolves codes in: species, insecticide
OptionSetIds == {"DNrGIbNB3oD", "eHrT4UiAgh8"}

\* the codes looked up: textDataMap.get(uid) || ''
OptionCodes == {"", "c1", "c2"}

\* the remote option sets, before and after an edit of the option names
CatalogA ==
    [id \in OptionSetIds |-> [code \in {"c1", "c2"} |->
        IF code = "c1" THEN "Name one" ELSE "Name two"]]

CatalogB ==
    [id \in OptionSetIds |-> [code \in {"c1"} |-> "Name one, renamed"]]

OptionCatalogs == {CatalogA, CatalogB}

MaxInvocations == 2

\* optionSet.options.find(opt => opt.code === code), displayName or '-'
DisplayName(optionSet, code) ==
    IF code \in DOMAIN optionSet THEN optionSet[code] ELSE "-"

\* processCountryData is called on the dataProcessingService singleton
Invoke ==
    /\ invocation.n < MaxInvocations
    /\ invocation' = [n |-> invocation.n + 1, seen |-> {}]
    /\ UNCHANGED <<optionSetCache, optionCatalog, osCall, pcdVars,
                   transformVars, resolverVars, profileVars, shellVars>>

\* getOptionSetValue(id, code): a cache hit, or a miss whose fetch resolves
GetOptionSetValue(id, code) ==
    /\ invocation.n > 0
    /\ optionSetCache' =
           IF id \in DOMAIN optionSetCache THEN optionSetCache
           ELSE Put(optionSetCache, id, optionCatalog[id])
    /\ osCall' = [id     |-> id,
                  code   |-> code,
                  first  |-> id \notin invocation.seen,
                  failed |-> FALSE,
                  remote |-> optionCatalog[id],
                  result |-> DisplayName(optionSetCache'[id], code)]
    /\ invocation' = [invocation EXCEPT !.seen = @ \cup {id}]
    /\ UNCHANGED <<optionCatalog, pcdVars, transformVars, resolverVars,
                   profileVars, shellVars>>

\* getOptionSetValue(id, code): a miss whose fetch rejects; the catch
\* returns '-'
GetOptionSetFails(id, code) ==
    /\ invocation.n > 0
    /\ id \notin DOMAIN optionSetCache
    /\ osCall' = [id     |-> id,
                  code   |-> code,
                  first  |-> id \notin invocation.seen,
                  failed |-> TRUE,
                  remote |-> optionCatalog[id],
                  result |-> "-"]
    /\ invocation' = [invocation EXCEPT !.seen = @ \cup {id}]
    /\ UNCHANGED <<optionSetCache, optionCatalog, pcdVars, transformVars,
                   resolverVars, profileVars, shellVars>>

\* the option names are edited in the remote instance
CatalogChanges ==
    /\ \E c \in OptionCatalogs \ {optionCatalog} : optionCatalog' = c
    /\ UNCHANGED <<optionSetCache, invocation, osCall, pcdVars,
                   transformVars, resolverVars, profileVars, shellVars>>

---------------------------------------------------------------------------
(* CountryProfile: the Reported Cases and Deaths panel *)

NoPanel == [shown |-> FALSE, fields |-> {}]

\* a panel that shows the three breakdowns for mode 1 only
CasesPanelExclusive(cases) ==
    LET mode == cases.paramEpiDisplay
    IN  {"totalCases"}
        \cup (IF mode = 1 * Scale
              THEN {"totalConfirmedCases", "confirmedHealthFacility",
                    "confirmedCommunity", "confirmedPrivateSector",
                    "reportedDeaths"}
              ELSE {})
        \cup (IF mode \in {2 * Scale, 3 * Scale}
              THEN {"reportedIndigenousConfirmedCases", "indigenousDeaths"}
              ELSE {})

\* the rows the JSX of the panel renders for data.cases
CasesPanel(cases) ==
    LET mode == cases.paramEpiDisplay
    IN  {"totalCases"}
        \cup (IF mode = 1 * Scale THEN {"totalConfirmedCases"} ELSE {})
        \cup (IF mode = 2 * Scale \/ mode = 3 * Scale
              THEN {"reportedIndigenousConfirmedCases"} ELSE {})
        \cup (IF mode = 1 * Scale \/ mode = 2 * Scale
              THEN {"confirmedHealthFacility", "confirmedCommunity",
                    "confirmedPrivateSector"}
              ELSE {})
        \cup (IF mode = 1 * Scale THEN {"reportedDeaths"} ELSE {})
        \cup (IF mode = 2 * Scale \/ mode = 3 * Scale
              THEN {"indigenousDeaths"} ELSE {})

\* CountryProfile renders the record processCountryData returned
RenderCases ==
    /\ pc = "done"
    /\ ~panel.shown
    /\ panel' = [shown |-> TRUE, fields |-> CasesPanel(result.cases)]
    /\ UNCHANGED <<pcdVars, transformVars, resolverVars, profileVars,
                   optionVars, dhis2, auth, ruleCall, dhis2Call>>

\* remote stores that hold the display mode 1, 2, 3, or nothing
ModeRemotes ==
    {EmptyMap} \cup
    {[uid \in {"Uk5ZiClT56N"} |-> v] : v \in {<<"1">>, <<"2">>, <<"3">>}}

---------------------------------------------------------------------------
(* DHIS2Provider: the auth reducer *)

initialState ==
    [isAuthenticated |-> FALSE, isLoading |-> FALSE, error |-> Null,
     user |-> Null]

\* authReducer whose CONNECT_ERROR case keeps the user
authReducerKeepsUser(state, action) ==
    CASE action.type = "CONNECT_START" ->
            [state EXCEPT !.isLoading = TRUE, !.error = Null]
      [] action.type = "CONNECT_SUCCESS" ->
            [state EXCEPT !.isAuthenticated = TRUE, !.isLoading = FALSE,
                          !.user = <<action.payload>>, !.error = Null]
      [] action.type = "CONNECT_ERROR" ->
            [state EXCEPT !.isAuthenticated = FALSE, !.isLoading = FALSE,
                          !.error = <<action.payload>>]
      [] action.type = "DISCONNECT" -> initialState
      [] action.type = "SET_LOADING" ->
            [state EXCEPT !.isLoading = action.payload]
      [] OTHER -> state

authReducer(state, action) ==
    CASE action.type = "CONNECT_START" ->
            [state EXCEPT !.isLoading = TRUE, !.error = Null]
      [] action.type = "CONNECT_SUCCESS" ->
            [state EXCEPT !.isAuthenticated = TRUE, !.isLoading = FALSE,
                          !.user = <<action.payload>>, !.error = Null]
      [] action.type = "CONNECT_ERROR" ->
            [state EXCEPT !.isAuthenticated = FALSE, !.isLoading = FALSE,
                          !.error = <<action.payload>>, !.user = Null]
      [] action.type = "DISCONNECT" -> initialState
      [] action.type = "SET_LOADING" ->
            [state EXCEPT !.isLoading = action.payload]
      [] OTHER -> state

\* useReducer's dispatch
dispatch(action) ==
    /\ auth' = authReducer(auth, action)
    /\ UNCHANGED <<transformationRules, tvCall, pcdVars, resolverVars,
                   profileVars, optionVars, panel, ruleCall, dhis2, dhis2Call>>

\* the users authenticate can return and the messages an error can carry
Users ==
    {[id |-> "demo-user", username |-> "token-user"],
     [id |-> "u1", username |-> "userA"]}

Messages == {"", "DHIS2 not configured", "Connection failed"}

---------------------------------------------------------------------------
(* Specifications *)

IdleProcess ==
    /\ lookupFailed = FALSE
    /\ countryCode = ""
    /\ settled = [g \in GroupIds |-> "idle"]
    /\ error = Null
    /\ dataMap = EmptyMap
    /\ textDataMap = EmptyMap
    /\ result = Null
    /\ sortedPolicyData = Null
    /\ policies = Null
    /\ selection = Null
    /\ builds = <<>>
    /\ view = NoView
    /\ optionSetCache = EmptyMap
    /\ optionCatalog = CatalogA
    /\ invocation = [n |-> 0, seen |-> {}]
    /\ osCall = Null
    /\ panel = NoPanel
    /\ dhis2 = [config |-> Null, authHeader |-> Null, isProduction |-> FALSE]
    /\ auth = initialState
    /\ ruleCall = Null
    /\ dhis2Call = Null

\* processCountryData against a remote instance
Init ==
    /\ transformationRules = DefaultRules
    /\ tvCall = Null
    /\ pc = "idle"
    /\ period \in Periods
    /\ remoteUnit \in RemoteUnits
    /\ remote \in Remotes
    /\ stray = Null
    /\ catalog = policyData
    /\ rows = <<>>
    /\ IdleProcess

Next ==
    \/ Start
    \/ LookupResolves
    \/ LookupRejects
    \/ GroupResolves
    \/ GroupRejects

Spec == Init /\ [][Next]_vars

\* the rule registry and transformValue
InitTransform ==
    /\ transformationRules = DefaultRules
    /\ tvCall = Null
    /\ pc = "idle"
    /\ period = P_2024
    /\ remoteUnit = Null
    /\ remote = EmptyMap
    /\ stray = Null
    /\ catalog = policyData
    /\ rows = <<>>
    /\ IdleProcess

NextTransform ==
    \/ \E uid \in RuleUids, rules \in RuleChains : addRules(uid, rules)
    \/ \E uid \in RuleUids : removeRule(uid)
    \/ clearAllRules
    \/ \E value \in CallValues, uid \in CallUids : TransformValue(value, uid)

\* processCountryData against a remote whose responses overlap
InitFold ==
    /\ transformationRules = DefaultRules
    /\ tvCall = Null
    /\ pc = "idle"
    /\ period = P_2024
    /\ remoteUnit \in RemoteUnits
    /\ remote = RemoteA
    /\ stray \in Strays
    /\ catalog = policyData
    /\ rows = <<>>
    /\ IdleProcess

SpecFold == InitFold /\ [][Next]_vars

\* fetch and merge under every grouping of three identifiers
InitGrouping ==
    /\ transformationRules = DefaultRules
    /\ tvCall = Null
    /\ pc = "idle"
    /\ period = P_2024
    /\ remoteUnit = Null
    /\ remote \in GroupStores
    /\ stray = Null
    /\ catalog = policyData
    /\ rows = <<>>
    /\ IdleProcess

NextGrouping ==
    \E groups \in Groupings, yn \in 0..Len(GroupedIds) : Regroup(groups, yn)

SpecGrouping == InitGrouping /\ [][NextGrouping]_vars

\* processCountryData and the panel, for each display mode
InitPanel ==
    /\ transformationRules = DefaultRules
    /\ tvCall = Null
    /\ pc = "idle"
    /\ period = P_2024
    /\ remoteUnit = Null
    /\ remote \in ModeRemotes
    /\ stray = Null
    /\ catalog = policyData
    /\ rows = <<>>
    /\ IdleProcess

NextPanel ==
    \/ Next
    \/ RenderCases

SpecPanel == InitPanel /\ [][NextPanel]_vars

SpecTransform == InitTransform /\ [][NextTransform]_vars

\* the merge loop and the policy list of the catalog, over drawn rows
InitMerge ==
    /\ transformationRules = DefaultRules
    /\ tvCall = Null
    /\ pc = "rows"
    /\ period \in Periods
    /\ remoteUnit = Null
    /\ remote = EmptyMap
    /\ stray = Null
    /\ catalog = policyData
    /\ rows \in RowSeqs
    /\ IdleProcess

\* a caller registers rules for the numeric probe before the merge
RegisterRules ==
    /\ pc = "rows"
    /\ "eDlvedXdgwP" \notin DOMAIN transformationRules
    /\ \E rules \in MergeChains : addRules("eDlvedXdgwP", rules)

NextMerge ==
    \/ RegisterRules
    \/ Merge
    \/ Resolve

SpecMerge == InitMerge /\ [][NextMerge]_vars

\* the calls on the rule registry
MaxList == 2

RegistryUids == {"BJXyRAkf2HZ", "eDlvedXdgwP"}

RegistryChains == {<<>>, <<"nullZeros">>, <<"cut100", "multiplyBy100">>}

Transformations ==
    UNION {[1..n -> [uid : RegistryUids, rules : RegistryChains \ {<<>>}]] :
              n \in 1..MaxList}

NextRegistry ==
    \/ \E uid \in RegistryUids, rules \in RegistryChains : addRules(uid, rules)
    \/ \E uid \in RegistryUids, rule \in {"cut100", "none"} : addRule(uid, rule)
    \/ \E list \in Transformations : addMultipleRules(list)
    \/ \E uid \in RegistryUids : removeRule(uid)
    \/ clearAllRules
    \/ \E name \in DOMAIN RuleStrings : addRuleFromString(RuleStrings[name])

SpecRegistry == InitTransform /\ [][NextRegistry]_vars

\* the calls on DHIS2Service
NextService ==
    \/ \E config \in Configs : setConfig(config)
    \/ initializeProduction
    \/ disconnect
    \/ authenticate
    \/ getAnalyticsData

SpecService == InitTransform /\ [][NextService]_vars

\* DHIS2Provider: the service calls and the dispatches of its callbacks
NextProvider ==
    \/ NextService
    \/ dispatch([type |-> "CONNECT_START"])
    \/ \E user \in Users :
          dispatch([type |-> "CONNECT_SUCCESS", payload |-> user])
    \/ \E message \in Messages :
          dispatch([type |-> "CONNECT_ERROR", payload |-> message])
    \/ dispatch([type |-> "DISCONNECT"])
    \/ \E loading \in BOOLEAN :
          dispatch([type |-> "SET_LOADING", payload |-> loading])

SpecProvider == InitTransform /\ [][NextProvider]_vars

\* the policy resolver over drawn catalogs
InitResolve ==
    /\ transformationRules = DefaultRules
    /\ tvCall = Null
    /\ pc = "rows"
    /\ period \in Periods
    /\ remoteUnit = Null
    /\ remote = EmptyMap
    /\ stray = Null
    /\ catalog \in Catalogs
    /\ rows \in {<<>>, <<<<"lLdqBPGWhu1", OrgUnit, P_2024, S_Y>>>>}
    /\ IdleProcess

NextResolve ==
    \/ Merge
    \/ Resolve

SpecResolve == InitResolve /\ [][NextResolve]_vars

\* CountryProfile under changing selections
InitProfile ==
    /\ transformationRules = DefaultRules
    /\ tvCall = Null
    /\ pc = "idle"
    /\ period = P_2024
    /\ remoteUnit = Null
    /\ remote = EmptyMap
    /\ stray = Null
    /\ catalog = policyData
    /\ rows = <<>>
    /\ IdleProcess

NextProfile ==
    \/ \E sel \in Selections : Mount(sel)
    \/ \E sel \in Selections : Select(sel)
    \/ \E b \in DOMAIN builds : ProcessResolves(b)
    \/ \E b \in DOMAIN builds : ProcessRejects(b)
    \/ \E b \in DOMAIN builds : UnitResolves(b)
    \/ \E b \in DOMAIN builds : UnitRejects(b)

SpecProfile == InitProfile /\ [][NextProfile]_vars

\* the loads of the component, Retry included; every remote call settles
LoadSelections == {"ou1"} \X Periods

NextLoads ==
    \/ \E sel \in LoadSelections : Mount(sel)
    \/ \E sel \in LoadSelections : Select(sel)
    \/ \E b \in DOMAIN builds : ProcessResolves(b)
    \/ \E b \in DOMAIN builds : ProcessRejects(b)
    \/ \E b \in DOMAIN builds : UnitResolves(b)
    \/ \E b \in DOMAIN builds : UnitRejects(b)
    \/ Retry

SpecLoads ==
    /\ InitProfile
    /\ [][NextLoads]_vars
    /\ \A b \in 1..MaxBuilds :
          /\ WF_vars(b \in DOMAIN builds
                      /\ (ProcessResolves(b) \/ ProcessRejects(b)))
          /\ WF_vars(b \in DOMAIN builds
                      /\ (UnitResolves(b) \/ UnitRejects(b)))

\* option lookups of successive processCountryData calls
NextOptions ==
    \/ Invoke
    \/ \E id \in OptionSetIds, code \in OptionCodes : GetOptionSetValue(id, code)
    \/ \E id \in OptionSetIds, code \in OptionCodes : GetOptionSetFails(id, code)
    \/ CatalogChanges

SpecOptions == InitProfile /\ [][NextOptions]_vars

---------------------------------------------------------------------------
(* Properties *)

\* the raw value of the last of the rows that carry the identifier
LastRaw(rws, uid) ==
    LET last == CHOOSE i \in DOMAIN rws :
                    /\ rws[i][1] = uid
                    /\ \A j \in DOMAIN rws : rws[j][1] = uid => j <= i
    IN  rws[last][4]

\* the text data elements the guide lists, with the footnote and the RDT type
GuideTextElements ==
    {"Vm1oCupLZsS", "gagBPnUGmaY", "JKP3ANVLyjN", "H9P0BVxKBYM", "VBkox9y1nbh",
     "geSDyXkZNU1", "Q260gqIU0A1", "apgTbakUcGw", "myQQJ1wGzIs", "rSxvwUOJEQN",
     "lLdqBPGWhu1", "DyINPGgopL3", "MrVSpLKqDsp", "anvAOV5ht6p", "LFuetZdwR81",
     "DP8ImP6qAK2", "uVy7wsFKUKj", "AXnVeNe9yF9", "gzyORQNEpkZ", "KmPLPFZJpHU",
     "XHwHMqT5nmK",
     "KSqJwXVSfbD", "gz7J7ikcJ1e", "e6JiciQzwuh", "zW6EYvOjMIo", "lOvt1oXLdBr",
     "aLWOXICfAbR",
     "UIwEygmwj1J", "rRs7tyHlgRc", "NrMNyIUB7RQ", "kp667EGomur",
     "IBovXuvqLqM", "MCb8TWRSlb0", "TzuDFOcom3h", "aQdJEFAqmg2",
     "lmkabfeVd1U", "LRksI6Vhz98", "WdskU0t2N1i", "ejBlfRCpZAB",
     "l7q5DJ4yQMP", "NSNQbWC8PiS", "rrKtSwyOGd9", "C1WcroDjXOI",
     "EZiGVGfTyLe", "IxSMxz5GT9U", "e76O7EJtWGk", "KT39UBQaP1w", "uu7tSgybizF",
     "sQmvMbqADAw",
     "JRiVdTENIoc", "OXa48KUAIpl", "GI8boxUVl0X", "catAlhTNBdV",
     "e0EfJGiSb79", "MnqhjD2JGWb", "jDFQP0JQamH", "dQ8Zy175oQc",
     "YqvLJLueLT1", "jGFk8LVWdyS", "hJ3v9S8AK5S", "b4mMqIHFcIV",
     "UKNTRFYcgr6", "FYGTLutUdIA", "Putx3c0luqG", "id9O30pMkaD",
     "LpmvOoiEVf0", "YNRlSV0dMPf"}

Merged == pc \in {"merged", "resolved"}

\* the number a raw value of the numeric probes stands for, in hundredths
ParsedNumber(raw) ==
    CASE raw = R_Half  -> 50
      [] raw = R_2015  -> 2015 * Scale
      [] raw = R_2015h -> 2015 * Scale + 50
      [] raw = R_Two   -> 2 * Scale
      [] raw \in {R_Abc, R_Zero, R_Empty} -> 0

\* C1, as stated: after the merge the numeric map holds, for every numeric
\* row, the parsed value run through the transformation engine under the
\* row's identifier (0.5 with [multiplyBy100] registered is stored as 50).
C1_MergeTransforms ==
    Merged =>
        \A i \in DOMAIN rows :
            LET uid == rows[i][1]
            IN  uid \notin GuideTextElements =>
                    /\ uid \in DOMAIN dataMap
                    /\ Num(dataMap[uid]) =
                           transformValue(transformationRules,
                                          Num(ParsedNumber(LastRaw(rows, uid))), uid)

\* C1, amended: after the merge the numeric map holds, for every numeric row,
\* the parsed value itself (unparsable as 0), whatever rules are registered
\* for the row's identifier: 0.5 with [multiplyBy100] registered is stored
\* as 0.5.
C1_MergeStoresParsed ==
    Merged =>
        \A i \in DOMAIN rows :
            LET uid == rows[i][1]
            IN  uid \notin GuideTextElements =>
                    /\ uid \in DOMAIN dataMap
                    /\ dataMap[uid] = ParsedNumber(LastRaw(rows, uid))

C1_Witness ==
    /\ pc = "merged"
    /\ "eDlvedXdgwP" \in DOMAIN transformationRules
    /\ transformationRules["eDlvedXdgwP"] = <<"multiplyBy100">>
    /\ rows = <<<<"eDlvedXdgwP", OrgUnit, P_2024, R_Half>>>>
    /\ dataMap = [uid \in {"eDlvedXdgwP"} |-> 50]

\* the value after the first k rules of a chain, each applied in turn
RECURSIVE ChainValue(_, _, _)
ChainValue(rules, k, v) ==
    IF k = 0 THEN v ELSE ApplyRule(rules[k], ChainValue(rules, k - 1, v))

\* C2: transformValue returns null for a null input under every identifier,
\* and returns null whenever some rule of the identifier's chain turns the
\* value so far into null, whatever rules follow; 0 under the chain
\* [multiplyBy100, nullZeros, cut100] gives null.
C2_NullAbsorbing ==
    tvCall # Null =>
        /\ IsNull(tvCall.value) => IsNull(tvCall.result)
        /\ (\E k \in 1..Len(tvCall.rules) :
                /\ IsNull(ChainValue(tvCall.rules, k, tvCall.value))
                /\ \A j \in 0..(k - 1) :
                       ~IsNull(ChainValue(tvCall.rules, j, tvCall.value)))
           => IsNull(tvCall.result)
        /\ (/\ tvCall.rules = <<"multiplyBy100", "nullZeros", "cut100">>
            /\ tvCall.value = Num(0))
           => IsNull(tvCall.result)

C2_Witness ==
    /\ tvCall # Null
    /\ tvCall.uid = "niYxtlxx68s"
    /\ tvCall.rules = <<"multiplyBy100", "nullZeros", "cut100">>
    /\ tvCall.value = Num(0)
    /\ IsNull(tvCall.result)

StandardLabel(value) ==
    IF value = <<"Y">> THEN <<<<"Y", "e", "s", "*">>, TRUE>>
    ELSE IF value = <<"Y", "1">> THEN <<<<"Y", "e", "s">>, TRUE>>
    ELSE IF value = <<"N">> THEN <<<<"N", "o">>, FALSE>>
    ELSE <<<<"-">>, FALSE>>

\* the value the policy list reads for an identifier: the stored text, N when
\* there is none
ValueRead(uid) ==
    IF uid \in DOMAIN textDataMap /\ textDataMap[uid] # <<>>
    THEN textDataMap[uid] ELSE <<"N">>

ReportingYear == IF period = <<"2", "0", "2", "3">> THEN 2023 ELSE 2024

\* the filter as the claim states it, both bounds inclusive
KeptInYear(d, year) ==
    /\ IsNull(d.validUntilYear) \/ year <= d.validUntilYear[1]
    /\ IsNull(d.validFromYear) \/ year >= d.validFromYear[1]

KeptDefinition(d) == KeptInYear(d, ReportingYear)

Count(seq, d) == Cardinality({i \in DOMAIN seq : seq[i] = d})

\* C5: the filtered catalog holds every definition whose validity window
\* contains the reporting year, bounds included, as often as the catalog
\* does, and no other definition: validUntilYear 2023 is kept for 2023 and
\* dropped for 2024, validFromYear 2024 is dropped for 2023 and kept for 2024.
C5_FilterInclusive ==
    pc = "resolved" =>
        /\ Range(sortedPolicyData) \subseteq Range(catalog)
        /\ \A d \in Range(catalog) :
               Count(sortedPolicyData, d) =
                   IF KeptDefinition(d) THEN Count(catalog, d) ELSE 0

C5_Witness ==
    /\ pc = "resolved"
    /\ period = P_2023
    /\ \E d \in Range(sortedPolicyData) : d.validUntilYear = Num(2023)
    /\ \E d \in Range(catalog) :
           /\ d.validFromYear = Num(2024)
           /\ d \notin Range(sortedPolicyData)

HasOrder(d, order) == d.displayOrder = order

\* C6: the resolved list follows the sorted catalog, in which display orders
\* ascend, no definition without a display order precedes one that has one,
\* and the definitions of one display order (or of none) stand in the order
\* the catalog declares them.
C6_SortedByDisplayOrder ==
    pc = "resolved" =>
        /\ Len(policies) = Len(sortedPolicyData)
        /\ \A i \in DOMAIN policies :
               policies[i].strategy = sortedPolicyData[i].strategy
        /\ \A i, j \in DOMAIN sortedPolicyData :
               i < j =>
                   LET a == sortedPolicyData[i].displayOrder
                       b == sortedPolicyData[j].displayOrder
                   IN  /\ (~IsNull(a) /\ ~IsNull(b)) => a[1] <= b[1]
                       /\ IsNull(a) => IsNull(b)
        /\ \A order \in {d.displayOrder : d \in Range(catalog)} :
               SelectSeq(sortedPolicyData, LAMBDA d : HasOrder(d, order)) =
                   SelectSeq(SelectSeq(catalog, KeptDefinition),
                             LAMBDA d : HasOrder(d, order))

C6_Witness ==
    /\ pc = "resolved"
    /\ Len(catalog) = 3
    /\ IsNull(catalog[1].displayOrder)
    /\ catalog[2].displayOrder = Num(1) /\ catalog[2].strategy = "B"
    /\ catalog[3].displayOrder = Num(1) /\ catalog[3].strategy = "A"
    /\ sortedPolicyData = <<catalog[2], catalog[3], catalog[1]>>

\* the text map's entry for an identifier, N when it has none
RawText(uid) ==
    IF uid \in DOMAIN textDataMap THEN textDataMap[uid] ELSE <<"N">>

RECURSIVE Blanks(_)
Blanks(n) == IF n = 0 THEN <<>> ELSE <<" ">> \o Blanks(n - 1)

\* the value is the text with blanks around it
IsPadded(value, text) ==
    LET blanks == Len(value) - Len(text)
    IN  /\ blanks >= 0
        /\ \E a \in 0..blanks : value = Blanks(a) \o text \o Blanks(blanks - a)

FreeTextLabels ==
    {<<"h", "a", "s", " ", "n", "e", "v", "e", "r", " ", "b", "e", "e", "n", " ", "a", "l", "l", "o", "w", "e", "d">>,
     <<"i", "s", " ", "b", "a", "n", "n", "e", "d">>}

\* what the claim asks of one resolved policy, given the value read for it
FreeTextOrStandard(d, out, value) ==
    IF d.policyUID = "MrVSpLKqDsp"
    THEN IF \E text \in FreeTextLabels : IsPadded(value, text)
         THEN /\ out.policy \in FreeTextLabels
              /\ IsPadded(value, out.policy)
              /\ out.implemented
         ELSE /\ out.policy = value
              /\ ~out.implemented
    ELSE <<out.policy, out.implemented>> = StandardLabel(ValueRead(d.policyUID))

HasYear(uid) == uid \in DOMAIN dataMap /\ dataMap[uid] # 0

\* C8, as stated: yearAdopted is null when the numeric map has no entry or a
\* zero entry for the year identifier, and a whole number otherwise.
C8_YearAdoptedInteger ==
    pc = "resolved" =>
        \A i \in DOMAIN policies :
            IF HasYear(sortedPolicyData[i].yearUID)
            THEN /\ ~IsNull(policies[i].yearAdopted)
                 /\ policies[i].yearAdopted[1] % Scale = 0
            ELSE IsNull(policies[i].yearAdopted)

\* C8, amended: yearAdopted is null when the numeric map has no entry or a
\* zero entry for the year identifier, and the stored number itself
\* otherwise, whole or not.
C8_YearAdoptedStored ==
    pc = "resolved" =>
        \A i \in DOMAIN policies :
            IF HasYear(sortedPolicyData[i].yearUID)
            THEN policies[i].yearAdopted = <<dataMap[sortedPolicyData[i].yearUID]>>
            ELSE IsNull(policies[i].yearAdopted)

C8_Witness ==
    /\ pc = "resolved"
    /\ "NJZIDMAfHWt" \in DOMAIN dataMap
    /\ dataMap["NJZIDMAfHWt"] = 2015 * Scale + 50
    /\ \E i \in DOMAIN policies :
           /\ sortedPolicyData[i].yearUID = "NJZIDMAfHWt"
           /\ policies[i].yearAdopted = <<2015 * Scale + 50>>

\* C9: once a grouped query has failed, processCountryData has rejected with
\* that query's error and has returned no record and merged no row.
C9_QueryFailureFailsBuild ==
    \A g \in GroupIds :
        settled[g] = "rejected" =>
            /\ pc = "rejected"
            /\ error = <<g>>
            /\ result = <<>>
            /\ dataMap = EmptyMap /\ textDataMap = EmptyMap

C9_Witness ==
    /\ pc = "rejected"
    /\ settled[2] = "rejected"
    /\ \A g \in GroupIds \ {2} : settled[g] = "fulfilled"
    /\ remote = RemoteA
    /\ result = <<>>

\* C10: once the organisation-unit lookup has failed, the country code is
\* the empty string, which is no elimination-target country; the call goes on
\* to the grouped queries and rejects only if one of them does, and the
\* record it returns has the empty code and showEstimates true.
C10_LookupFailureTolerated ==
    lookupFailed =>
        /\ countryCode = ""
        /\ ~isE2025Country(countryCode)
        /\ countryCode \notin estIndigCountriesArray
        /\ pc \in {"fetch", "done", "rejected"}
        /\ pc = "rejected" => \E g \in GroupIds : settled[g] = "rejected"
        /\ pc = "done" =>
               /\ result.countryCode = ""
               /\ result.showEstimates = TRUE

C10_Witness ==
    /\ lookupFailed
    /\ remoteUnit = <<"BLZ">>
    /\ pc = "done"
    /\ result.countryCode = ""
    /\ result.showEstimates

\* the loadCountryData call of the current selection
LatestBuild == builds[Len(builds)]

\* C11: the state the component shows belongs to the latest selection: while
\* its build is in flight the loading flag stays set, an error shown is the
\* latest build's, and once the latest build has delivered its record the
\* data shown is that record, whenever the earlier builds complete.
C11_NoStaleOverwrite ==
    builds # <<>> =>
        /\ LatestBuild.sel = selection
        /\ LatestBuild.stage \in {"process", "unit"} => view.loading
        /\ view.error # <<>> => view.error = <<selection>>
        /\ LatestBuild.stage \in {"unit", "done", "unitFailed"} =>
               view.data = <<selection>>

\* C12: the first lookup of an option set in a processCountryData call, when
\* its fetch does not fail, answers with the name the remote option set has
\* at that time, whatever earlier calls fetched.
C12_CachePerInvocation ==
    (osCall # <<>> /\ osCall.first /\ ~osCall.failed) =>
        osCall.result = DisplayName(osCall.remote, osCall.code)

\* the last rule of a list that is not none, none when there is no such rule
LastChangingRule(rules) ==
    LET changing == {i \in 1..Len(rules) : rules[i] # "none"}
    IN  IF changing = {} THEN "none"
        ELSE rules[CHOOSE i \in changing : \A j \in changing : j <= i]

\* C13: for every non-null input, the result of transformValue under a rule
\* list whose last value-changing rule is cut100 is never above 100 (it is a
\* number of at most 100, or null when an earlier rule nulled the value);
\* [multiplyBy100, cut100] applied to 1.5 yields 100.
C13_Cut100Caps ==
    (tvCall # Null /\ ~IsNull(tvCall.value)) =>
        /\ LastChangingRule(tvCall.rules) = "cut100" =>
               \/ IsNull(tvCall.result)
               \/ tvCall.result[1] <= 100 * Scale
        /\ (/\ tvCall.rules = <<"multiplyBy100", "cut100">>
            /\ tvCall.value = Num(150))
           => tvCall.result = Num(100 * Scale)

C13_Witness ==
    /\ tvCall # Null
    /\ tvCall.uid = "eDlvedXdgwP"
    /\ tvCall.rules = <<"multiplyBy100", "cut100">>
    /\ tvCall.value = Num(150)
    /\ tvCall.result = Num(100 * Scale)

C15_EmptyFilterResult ==
    (pc = "resolved" /\ \A d \in Range(catalog) : ~KeptDefinition(d)) =>
        /\ sortedPolicyData = <<>>
        /\ policies = <<>>
        /\ error = Null

C15_Witness ==
    /\ pc = "resolved"
    /\ period = P_2023
    /\ Len(catalog) = 2
    /\ \A d \in Range(catalog) : d.validFromYear = Num(2024)
    /\ policies = <<>>
    /\ error = Null

\* the elimination-target countries as the guide lists them
GuideE2025Countries ==
    {"BLZ", "BTN", "BWA", "CPV", "COM", "CRI", "PRK", "DOM", "ECU", "SWZ",
     "GUF", "GTM", "HND", "IRN", "MYS", "MEX", "NPL", "PAN", "KOR", "STP",
     "SAU", "ZAF", "SUR", "THA", "TLS", "VUT"}

\* C16: the returned record carries the code of the organisation unit, or
\* the empty code when the unit has none or its lookup failed, and its
\* showEstimates is false exactly when that code is an elimination-target
\* country other than NPL; for every other code, the empty one included, it
\* is true.
C16_ShowEstimates ==
    pc = "done" =>
        /\ result.countryCode =
               (IF lookupFailed \/ remoteUnit = Null THEN "" ELSE remoteUnit[1])
        /\ result.showEstimates =
               ~(/\ result.countryCode \in GuideE2025Countries
                 /\ result.countryCode # "NPL")

C16_Witness ==
    /\ pc = "done"
    /\ ~lookupFailed
    /\ remoteUnit = <<"BLZ">>
    /\ result.countryCode = "BLZ"
    /\ result.showEstimates = FALSE

\* C17: when the text stored for MrVSpLKqDsp is "Has never been allowed",
\* written with a capital H as in the guide, its policy is displayed as
\* "Has never been allowed" with implemented true.
C17_CapitalisedNeverAllowed ==
    (/\ pc = "resolved"
     /\ "MrVSpLKqDsp" \in DOMAIN textDataMap
     /\ textDataMap["MrVSpLKqDsp"] = R_HasNeverCapital)
    => \A i \in DOMAIN policies :
           sortedPolicyData[i].policyUID = "MrVSpLKqDsp" =>
               /\ policies[i].policy = R_HasNeverCapital
               /\ policies[i].implemented

\* the data elements the guide lists under multiplyBy100
GuideMultiplyBy100 ==
    {"BJXyRAkf2HZ", "o4iFtiN0YZh", "nvqnQcEbuPA", "ZnSwOwcQt52", "gZrHErmb74i",
     "SQWZ8POEhMI", "LSlfr3VzLCp", "IGQENa04DFm", "heI5NQZqZRW", "rVUHAOEXV67",
     "ZoMFYowPAkO", "eVYQuP1faAt"}

\* C18: under the default registry, transformValue multiplies by 100 every
\* non-null, non-zero value of a data element the guide lists under
\* multiplyBy100; 0.85 becomes 85.
C18_GuideMultiplyBy100 ==
    (/\ tvCall # Null
     /\ tvCall.uid \in GuideMultiplyBy100
     /\ tvCall.rules = getRules(DefaultRules, tvCall.uid)
     /\ ~IsNull(tvCall.value)
     /\ tvCall.value # Num(0))
    => tvCall.result = Num(tvCall.value[1] * 100)

\* the identifiers the g-th response has a row for
ReturnedBy(g) == {Response(g)[i][1] : i \in DOMAIN Response(g)}

\* the last-declared of the groups whose response has a row for the identifier
LastGroupOf(uid) ==
    CHOOSE g \in GroupIds :
        /\ uid \in ReturnedBy(g)
        /\ \A h \in GroupIds : uid \in ReturnedBy(h) => h <= g

\* C19: in whatever order the grouped queries completed, the maps of a
\* finished call hold for every returned identifier the value of its last
\* row in the response of the last-declared group that returned it, and
\* nothing else.
C19_DeclaredOrderFold ==
    pc = "done" =>
        /\ DOMAIN dataMap \cup DOMAIN textDataMap =
               UNION {ReturnedBy(g) : g \in GroupIds}
        /\ \A uid \in DOMAIN textDataMap :
               textDataMap[uid] = LastRaw(Response(LastGroupOf(uid)), uid)
        /\ \A uid \in DOMAIN dataMap :
               dataMap[uid] =
                   ParsedNumber(LastRaw(Response(LastGroupOf(uid)), uid))

C19_Witness ==
    /\ pc = "done"
    /\ stray # Null
    /\ stray.group = 1
    /\ stray.row[1] = "eDlvedXdgwP"
    /\ LastGroupOf("eDlvedXdgwP") = 2
    /\ dataMap["eDlvedXdgwP"] = 50
    /\ stray.row[4] = R_2015

Unparsable == {<<>>, <<"a", "b", "c">>}

\* C21: after the merge, an identifier that no text classification names and
\* whose last row carries an empty or non-numeric raw value has the number 0
\* in the numeric map and no entry in the text map, and the merge has raised
\* no error.
C21_UnparsableIsZero ==
    Merged =>
        /\ error = Null
        /\ \A i \in DOMAIN rows :
               LET uid == rows[i][1]
               IN  (uid \notin GuideTextElements
                    /\ LastRaw(rows, uid) \in Unparsable) =>
                       /\ uid \in DOMAIN dataMap
                       /\ dataMap[uid] = 0
                       /\ uid \notin DOMAIN textDataMap

C21_Witness ==
    /\ pc = "merged"
    /\ rows = <<<<"eDlvedXdgwP", OrgUnit, P_2024, R_Half>>,
                <<"eDlvedXdgwP", OrgUnit, P_2024, R_Empty>>>>
    /\ dataMap = [uid \in {"eDlvedXdgwP"} |-> 0]
    /\ textDataMap = EmptyMap

\* C22: the resolved list has exactly one result for every definition that
\* survived the filter, in the same order and for the same intervention and
\* strategy; and a definition other than MrVSpLKqDsp whose yes/no identifier
\* has no entry in the text map is shown as "No" with implemented false.
C22_InterpretationTotal ==
    pc = "resolved" =>
        /\ Len(policies) = Len(sortedPolicyData)
        /\ \A i \in DOMAIN policies :
               /\ policies[i].intervention = sortedPolicyData[i].intervention
               /\ policies[i].strategy = sortedPolicyData[i].strategy
               /\ (/\ sortedPolicyData[i].policyUID \notin DOMAIN textDataMap
                   /\ sortedPolicyData[i].policyUID # "MrVSpLKqDsp")
                  => /\ policies[i].policy = <<"N", "o">>
                     /\ policies[i].implemented = FALSE

C22_Witness ==
    /\ pc = "resolved"
    /\ textDataMap = EmptyMap
    /\ Len(policies) > 1
    /\ \E i \in DOMAIN policies :
           /\ sortedPolicyData[i].policyUID = "lLdqBPGWhu1"
           /\ policies[i].policy = <<"N", "o">>
           /\ policies[i].implemented = FALSE

\* C23, as stated: while the country-code lookup is in flight the grouped
\* analytics queries have been issued.
C23_QueriesWithLookup ==
    pc = "lookup" => \A g \in GroupIds : settled[g] # "idle"

\* C23, amended: no grouped query is issued while the country-code lookup is
\* in flight; the queries are issued, all together, once the lookup has
\* resolved or rejected.
C23_QueriesAfterLookup ==
    /\ pc = "lookup" => \A g \in GroupIds : settled[g] = "idle"
    /\ (\E g \in GroupIds : settled[g] # "idle") =>
           /\ pc \in {"fetch", "done", "rejected"}
           /\ \A g \in GroupIds : settled[g] # "idle"

C23_Witness ==
    /\ pc = "fetch"
    /\ ~lookupFailed
    /\ countryCode = "BLZ"
    /\ \A g \in GroupIds : settled[g] = "pending"

\* the rows of the panel the claim speaks of
BreakdownFields ==
    {"confirmedHealthFacility", "confirmedCommunity", "confirmedPrivateSector"}

IndigenousFields == {"reportedIndigenousConfirmedCases", "indigenousDeaths"}

\* the display mode the numeric map holds, as a whole number
ModeInMap ==
    IF "Uk5ZiClT56N" \in DOMAIN dataMap THEN dataMap["Uk5ZiClT56N"] \div Scale
    ELSE 0

\* C24, as stated: the record carries the mode of the numeric map, and the
\* panel shows the confirmed-case breakdown and no indigenous-case field for
\* mode 1, and the indigenous-case fields and no breakdown field for modes 2
\* and 3.
C24_ModesExclusive ==
    panel.shown =>
        /\ result.cases.paramEpiDisplay = ModeInMap * Scale
        /\ ModeInMap = 1 =>
               /\ BreakdownFields \subseteq panel.fields
               /\ IndigenousFields \cap panel.fields = {}
        /\ ModeInMap \in {2, 3} =>
               /\ IndigenousFields \subseteq panel.fields
               /\ BreakdownFields \cap panel.fields = {}

\* C24, amended: the record carries the mode of the numeric map; for mode 1
\* the panel shows the breakdown and no indigenous-case field; for mode 2 it
\* shows the indigenous-case fields together with the breakdown; for mode 3
\* it shows the indigenous-case fields and no breakdown field.
C24_ModeTwoShowsBoth ==
    panel.shown =>
        /\ result.cases.paramEpiDisplay = ModeInMap * Scale
        /\ ModeInMap = 1 =>
               /\ BreakdownFields \subseteq panel.fields
               /\ IndigenousFields \cap panel.fields = {}
        /\ ModeInMap = 2 =>
               /\ IndigenousFields \subseteq panel.fields
               /\ BreakdownFields \subseteq panel.fields
        /\ ModeInMap = 3 =>
               /\ IndigenousFields \subseteq panel.fields
               /\ BreakdownFields \cap panel.fields = {}

C24_Witness ==
    /\ panel.shown
    /\ dataMap = [uid \in {"Uk5ZiClT56N"} |-> 2 * Scale]
    /\ panel.fields = {"totalCases"} \cup IndigenousFields \cup BreakdownFields


\* C25: after addRuleFromString is given the documented string
\* "UID: BJXyRAkf2HZ should multiplyBy100,nullZeros" it has returned true and
\* transformValue for BJXyRAkf2HZ applies multiplyBy100 and then nullZeros
\* (0.5 becomes 50, 0 becomes null); after a string that does not match the
\* format it has returned false and the registry is the default one it was
C25_DocumentedStringApplies ==
    ruleCall # Null /\ ruleCall[1].name = "addRuleFromString" =>
        LET call == ruleCall[1]
        IN  /\ call.ruleString = RuleStrings.documented =>
                  /\ call.returned
                  /\ transformValue(transformationRules, Num(50), "BJXyRAkf2HZ")
                       = Num(50 * Scale)
                  /\ transformValue(transformationRules, Num(0), "BJXyRAkf2HZ")
                       = Null
            /\ call.ruleString \in {RuleStrings.noPrefix, RuleStrings.shortUid} =>
                  ~call.returned


\* the rule list the last add of a batch gives for uid, or the one before
LastAdded(list, registry, uid) ==
    LET at == {i \in DOMAIN list : list[i].uid = uid}
    IN  IF at = {} THEN getRules(registry, uid)
        ELSE list[CHOOSE i \in at : \A j \in at : j <= i].rules

\* what getRules(uid) has to return after a call on the registry
RulesAfter(call, registry, uid) ==
    CASE call.name \in {"addRules", "addRule"} ->
            IF uid = call.uid THEN call.rules ELSE getRules(registry, uid)
      [] call.name = "addMultipleRules" -> LastAdded(call.list, registry, uid)
      [] call.name = "removeRule" ->
            IF uid = call.uid THEN <<"none">> ELSE getRules(registry, uid)
      [] call.name = "clearAllRules" -> <<"none">>

\* C27: every addRules, addRule, addMultipleRules, removeRule and
\* clearAllRules call leaves getRules(uid) returning exactly the list the most
\* recent add for uid gave (an add replaces, never appends), [none] for a uid
\* removed or cleared, and what it returned before for every uid the call
\* was not about
C27_RegistrySemantics ==
    [][(ruleCall' # ruleCall \/ transformationRules' # transformationRules)
       /\ ruleCall' # Null
       /\ ruleCall'[1].name # "addRuleFromString"
       => \A uid \in DOMAIN transformationRules \cup RegistryUids :
             getRules(transformationRules', uid)
               = RulesAfter(ruleCall'[1], transformationRules, uid)]_vars

\* C27, its case: addRules has replaced the default rule of BJXyRAkf2HZ
C27_Witness ==
    /\ ruleCall # Null
    /\ ruleCall[1].name = "addRules"
    /\ ruleCall[1].uid = "BJXyRAkf2HZ"
    /\ ruleCall[1].rules = <<"nullZeros">>
    /\ getRules(transformationRules, "BJXyRAkf2HZ") = <<"nullZeros">>
    /\ getRules(transformationRules, "niYxtlxx68s") = DefaultRules["niYxtlxx68s"]


\* C26: for the periods 2023 and 2024, every definition of the catalog that
\* survives the year filter has its yes/no identifier in policyYesNoElements
\* and its year-adopted identifier in policyYearElements
C26_SurvivorsQueried ==
    sortedPolicyData # Null /\ catalog = policyData /\ period \in Periods =>
        \A i \in DOMAIN sortedPolicyData :
            /\ sortedPolicyData[i].policyUID \in Range(policyYesNoElements)
            /\ sortedPolicyData[i].yearUID \in Range(policyYearElements)


\* C28: in every reachable state a non-null auth header is the one derived
\* from the credentials of the config the service holds, and a request
\* carries a header only to the base URL of the config it was derived from
\* (a setConfig call that throws has left config and header as they were)
C28_HeaderOfHeldConfig ==
    /\ dhis2.authHeader # Null =>
          /\ dhis2.config # Null
          /\ dhis2.authHeader = AuthHeaderOf(dhis2.config[1])
    /\ dhis2Call # Null
         /\ dhis2Call[1].name \in {"authenticate", "getAnalyticsData"}
         /\ dhis2Call[1].header # Null =>
          \E config \in Configs :
              /\ config.baseUrl = dhis2Call[1].url
              /\ AuthHeaderOf(config) = dhis2Call[1].header


\* C29: in every state the auth reducer reaches from the initial state,
\* isAuthenticated is true exactly when user is non-null, and a non-null
\* error implies that isAuthenticated is false
C29_AuthConsistent ==
    /\ auth.isAuthenticated <=> auth.user # Null
    /\ auth.error # Null => ~auth.isAuthenticated

\* C29, its case: CONNECT_ERROR was dispatched and SET_LOADING after it
C29_Witness ==
    /\ auth.error = <<"Connection failed">>
    /\ auth.isLoading
    /\ auth.user = Null
    /\ ~auth.isAuthenticated


\* the stages in which a loadCountryData call has run its finally block
Finished == {"done", "failed", "unitFailed"}

\* C30: every load the component starts (by the effect or by Retry)
\* eventually runs to its end, whether processCountryData and the region
\* lookup resolve or reject; the step that ends it leaves the loading flag
\* false, and the step that ends a rejected load leaves the error non-null
C30_LoadsFinish ==
    /\ \A b \in 1..MaxBuilds :
          (b \in DOMAIN builds) ~>
              (b \in DOMAIN builds /\ builds[b].stage \in Finished)
    /\ [][\A b \in DOMAIN builds :
             builds[b].stage \notin Finished
             /\ b \in DOMAIN builds' /\ builds'[b].stage \in Finished
             => /\ ~view'.loading
                /\ builds'[b].stage \in {"failed", "unitFailed"}
                     => view'.error # Null]_vars

\* C30, its case: a load was rejected, Retry started the same selection again
\* and that load has finished
C30_Witness ==
    /\ Len(builds) >= 2
    /\ builds[1].stage = "failed"
    /\ builds[2].sel = builds[1].sel
    /\ builds[2].stage \in {"done", "unitFailed"}
    /\ ~view.loading

====
